---- MODULE Spec2Model ----
\* Guest side of the i915 vGPU paravirtualization layer: the command-transport
\* (CT) ring channel of drivers/gpu/drm/i915/i915_vgpu.c, with the host (GVT)
\* as the second actor on the shared descriptor.
EXTENDS Integers, Sequences, FiniteSets, TLC

VARIABLES
    desc,        \* struct vgpu_pv_ct_buffer_desc (head, tail, size in bytes)
    cmds,        \* pv->ctb.cmds: the CT data region, one u32 per index
    next_fence,  \* pv->next_fence
    lock,        \* pv->lock: 0 when free, else the caller holding it
    call,        \* per caller: position in the send path and its locals
    host,        \* the host's position, the request it took last (fence word,
                 \* status it decided), which of the two stores it did first,
                 \* and whether it ever took a request whose sender had given up
    sends,       \* number of send calls started
    fence_log,   \* history: the fences allocated, in allocation order
    pending,     \* history: dwords written to the ring and not yet consumed
    enc,         \* header encoding probe: len, action code, encoded header
    scen,        \* write scenario probe: a descriptor, its data region, result
    dev,         \* dev_priv->vgpu and what device attach did (see DevIdle)
    queue,       \* execlists->queue: the pending requests, first to dispatch first
    inflight,    \* execlists->inflight[]: request per port, 0 = NULL
    slot,        \* pv->pv_elsp[engine->id]: descs, ctx_gpa, submitted
    active_requests, \* engine->active.requests, in submission order
    rq,          \* per request: lifecycle state, fence error, port references
    tasklet,     \* execlists->tasklet: disabled, scheduled to run
    reset_call,  \* the __i915_request_reset call of the reset in progress: its
                 \* request, whether it had started, the stalled passed in and
                 \* the stalled used
    op,          \* a PV address-space or context operation: which one, what
                 \* its send returned, what it returned to its caller
    thr          \* the engine lock's holder, the position of the tasklet and
                 \* of the reset caller inside their routines, the ports
                 \* pv_submit is writing, and the host's pending notification

\* the variables outside the CT channel
othervars ==
    <<scen, dev, queue, inflight, slot, active_requests, rq, tasklet, reset_call,
      op, thr>>

vars == <<desc, cmds, next_fence, lock, call, host, sends, fence_log, pending,
          enc, othervars>>

\* ------------------------------------------------------------------ bounds
\* words of the CT data region in the model (PAGE_SIZE/2/4 in the driver)
CTWords == 6
\* longest action array (in dwords) a modelled sender passes
MaxLen == 3
\* total number of send calls in one behaviour
MaxSends == 3
\* words of the data region and of the action in the write scenario
ScenWords == 64
ScenLen == 10
\* requests the upper layers hand to the engine in one behaviour
NumRq == 3
\* calls of address-space and context operations in one behaviour
MaxOps == 2
\* pages of the largest region handed to a bind, insert or unbind
MaxPages == 3
\* requests handed to the engine in a behaviour that follows the tasklet and
\* the reset caller statement by statement
NumStepRq == 2
\* ggtt->mappable_end and ggtt->vm.total of the address space that is
\* ballooned, in units of one reservable range
GgttMappableEnd == 2
GgttTotal == 4

\* --------------------------------------------------------------- constants
\* a u32 is kept as its two 16-bit halves [hi, lo]: value = hi * Half + lo
Half == 65536
ENOSPC == 28
ETIMEDOUT == 110
EIO == 5
PV_CT_MSG_LEN_SHIFT == 0
PV_CT_MSG_LEN_MASK == 31
PV_CT_MSG_WRITE_FENCE_TO_DESC == 256
PV_CT_MSG_ACTION_SHIFT == 16
\* last value of enum intel_vgpu_pv_action
PV_ACTION_HWCTX_RESET == 14

ENOMEM == 12
EINVAL == 22
PV_MAJOR == 1
PV_MINOR == 0
VGT_VERSION_MAJOR == 1
PAGE_SIZE == 4096
I915_NUM_ENGINES == 8
EXECLIST_MAX_PORTS == 2
\* enum pv_caps
PV_PPGTT == 1
PV_GGTT == 2
PV_SUBMISSION == 4
PV_HW_CONTEXT == 8
PV_INTERRUPT == 16

\* the threads that call pv->send concurrently
Callers == {1, 2}

\* ------------------------------------------------------- 32-bit arithmetic
\* the u32 with value hi * Half + lo
W(hi, lo) == [hi |-> hi, lo |-> lo]

\* a small natural as a u32
U(n) == W(n \div Half, n % Half)

RECURSIVE Pow2(_)
Pow2(n) == IF n = 0 THEN 1 ELSE 2 * Pow2(n - 1)

\* x << n on a u32 for n < 16: the bits shifted out of the top are lost
ShlLow(x, n) ==
    W((x.hi * Pow2(n) + (x.lo * Pow2(n)) \div Half) % Half, (x.lo * Pow2(n)) % Half)

\* x << n on a u32, n < 32
Shl32(x, n) == IF n < 16 THEN ShlLow(x, n) ELSE ShlLow(W(x.lo, 0), n - 16)

RECURSIVE BitOr(_, _)
\* a | b on naturals
BitOr(a, b) ==
    IF a = 0 THEN b
    ELSE IF b = 0 THEN a
    ELSE (IF (a % 2) + (b % 2) > 0 THEN 1 ELSE 0) + 2 * BitOr(a \div 2, b \div 2)

\* a | b on u32
Or32(a, b) == W(BitOr(a.hi, b.hi), BitOr(a.lo, b.lo))

\* x + 1 on a u32, wrapping at 2^32
Inc32(x) ==
    IF x.lo + 1 < Half THEN W(x.hi, x.lo + 1)
    ELSE W((x.hi + 1) % Half, 0)

\* a < b on u32
Less32(a, b) == a.hi < b.hi \/ (a.hi = b.hi /\ a.lo < b.lo)

\* ~0 on a u32
AllOnes == W(Half - 1, Half - 1)

Zero32 == U(0)

\* ------------------------------------------------------------ the channel
\* a header without the fence-to-descriptor flag
MsgHeaderNoFlag(len, code) ==
    Or32(Shl32(U(len), PV_CT_MSG_LEN_SHIFT), Shl32(code, PV_CT_MSG_ACTION_SHIFT))

\* header = (len << LEN_SHIFT) | WRITE_FENCE_TO_DESC | (action[0] << ACTION_SHIFT)
MsgHeader(len, code) ==
    Or32(Or32(Shl32(U(len), PV_CT_MSG_LEN_SHIFT), U(PV_CT_MSG_WRITE_FENCE_TO_DESC)),
         Shl32(code, PV_CT_MSG_ACTION_SHIFT))

\* used space computed without the wrapped case
UsedNoWrap(head, tail, size) ==
    IF tail < head THEN head - tail ELSE tail - head

\* used space in dwords, from head, tail and size in dwords
Used(head, tail, size) ==
    IF tail < head THEN (size - head) + tail ELSE tail - head

\* the space check without the extra dword
NoSpaceNoReserve(used, len, size) == used + len >= size

\* the space check, including the extra dword for the fence
NoSpace(used, len, size) == used + len + 1 >= size

\* a tail that stops at the end of the data region instead of wrapping
NextSlotNoWrap(tail, size) == IF tail + 1 < size THEN tail + 1 ELSE tail

\* a tail that runs on past the end of the data region
NextSlotPlain(tail, size) == tail + 1

\* tail = (tail + 1) % size
NextSlot(tail, size) == (tail + 1) % size

RECURSIVE WritePayloadAll(_, _, _, _, _, _)
\* a payload loop that also stores action[0], which the header already carries
WritePayloadAll(buf, tail, size, action, i, len) ==
    IF i <= len
    THEN WritePayloadAll([buf EXCEPT ![tail] = action[i]], (tail + 1) % size,
                         size, action, i + 1, len)
    ELSE [cmds |-> buf, tail |-> tail]

RECURSIVE WritePayload(_, _, _, _, _, _)
\* for (i = 1; i < len; i++) { cmds[tail] = action[i]; tail = (tail + 1) % size; }
\* (action is 1-based here: action[i + 1] is the code's action[i])
WritePayload(buf, tail, size, action, i, len) ==
    IF i < len
    THEN WritePayload([buf EXCEPT ![tail] = action[i + 1]], NextSlot(tail, size),
                      size, action, i + 1, len)
    ELSE [cmds |-> buf, tail |-> tail]

\* pv_command_buffer_write: [err, cmds, tail (bytes)]
pv_command_buffer_write(d, buf, action, len, fence) ==
    LET head == d.head \div 4
        tail == d.tail \div 4
        size == d.size \div 4
        used == Used(head, tail, size)
        header == MsgHeader(len, action[1])
        b1 == [buf EXCEPT ![tail] = header]
        t1 == NextSlot(tail, size)
        b2 == [b1 EXCEPT ![t1] = fence]
        t2 == NextSlot(t1, size)
        w == WritePayload(b2, t2, size, action, 1, len)
    IN  IF NoSpace(used, len, size)
        THEN [err |-> -ENOSPC, cmds |-> buf, tail |-> d.tail]
        ELSE [err |-> 0, cmds |-> w.cmds, tail |-> w.tail * 4]

\* a tail store that also clears the status for the new request
StoreTailClear(d, tail) == [d EXCEPT !.tail = tail, !.status = Zero32]

\* desc->tail = tail * 4: the only store of the guest into the descriptor
\* after setup
StoreTail(d, tail) == [d EXCEPT !.tail = tail]

\* a fence counter that is only 16 bits wide
pv_get_next_fence_u16(nf) == W(nf.hi, (nf.lo + 1) % Half)

\* return ++pv->next_fence;
pv_get_next_fence(nf) == Inc32(nf)

\* a completion test that accepts any fence not older than the awaited one
FenceDoneAtLeast(descfence, fence) == ~Less32(descfence, fence)

\* #define done (READ_ONCE(desc->fence) == fence)
FenceDone(descfence, fence) == descfence = fence

\* a pv_send that does not look at the status
SendResultIgnoreStatus(err, status) == err

\* the tail of pv_send once the wait returned err and *status was read
SendResult(err, status) ==
    IF err # 0 THEN err
    ELSE IF status # Zero32 THEN -EIO
    ELSE 0

\* a pv_send that notifies the host whatever the write returned
NotifyAlways(err) == TRUE

\* pv_send issues intel_vgpu_pv_notify only when the write returned 0
NotifyAfterWrite(err) == err = 0

\* a send path that takes no lock
LockNever(l) == TRUE

\* spin_lock_irqsave succeeds when no caller holds pv->lock (0 = free)
LockFree(l) == l = 0

\* a return path that leaves the lock with its holder
NotReleased(c) == c

\* spin_unlock_irqrestore: the lock word after the holder released it
Released(c) == 0

\* ------------------------------------------------------------ the senders
\* action arrays the callers pass: data[0] = action code, data[1..] payload
ActionArray(code, len) ==
    [i \in 1..len |-> IF i = 1 THEN U(code) ELSE U(code * 16 + (i - 1))]

\* (the shortest array and the two longest of the model)
ActionSet == { ActionArray(4, 1), ActionArray(9, MaxLen - 1), ActionArray(12, MaxLen) }

\* status values the host reports
StatusSet == {Zero32, U(22)}

IdleCall == [pc |-> "idle", action |-> <<>>, fence |-> Zero32, err |-> 0,
             status |-> Zero32, nwrite |-> 0, nnotify |-> 0, nwait |-> 0,
             wrote |-> FALSE, matched |-> FALSE]

\* a caller enters intel_vgpu_pv_send_command_buffer: status = ~0, then spins
Call(c) ==
    /\ call[c].pc = "idle"
    /\ sends < MaxSends
    /\ \E a \in ActionSet :
        call' = [call EXCEPT ![c] = [IdleCall EXCEPT !.pc = "spin", !.action = a,
                                                     !.status = AllOnes]]
    /\ sends' = sends + 1
    /\ UNCHANGED <<desc, cmds, next_fence, lock, host, fence_log, pending, enc, othervars>>

\* spin_lock_irqsave(&vgpu->pv->lock, flags)
Acquire(c) ==
    /\ call[c].pc = "spin"
    /\ LockFree(lock)
    /\ lock' = c
    /\ call' = [call EXCEPT ![c].pc = "fence"]
    /\ UNCHANGED <<desc, cmds, next_fence, host, sends, fence_log, pending, enc, othervars>>

\* pv_send: fence = pv_get_next_fence(pv)
AllocFence(c) ==
    /\ call[c].pc = "fence"
    /\ next_fence' = pv_get_next_fence(next_fence)
    /\ call' = [call EXCEPT ![c].pc = "write", ![c].fence = next_fence']
    /\ fence_log' = Append(fence_log, next_fence')
    /\ UNCHANGED <<desc, cmds, lock, host, sends, pending, enc, othervars>>

\* pv_send: err = pv_command_buffer_write(...); if (err) goto unlink;
\*          intel_vgpu_pv_notify(dev_priv); then wait_for_desc_update
Write(c) ==
    /\ call[c].pc = "write"
    /\ \E r \in { pv_command_buffer_write(desc, cmds, call[c].action,
                                           Len(call[c].action), call[c].fence) } :
       LET n == IF NotifyAfterWrite(r.err) THEN 1 ELSE 0
       IN  /\ cmds' = r.cmds
           /\ desc' = IF r.err = 0 THEN StoreTail(desc, r.tail) ELSE desc
           /\ pending' = IF r.err = 0 THEN pending + Len(call[c].action) + 1
                                      ELSE pending
           /\ call' = [call EXCEPT ![c].pc = IF r.err # 0 THEN "unlock" ELSE "wait",
                                   ![c].err = r.err,
                                   ![c].wrote = (r.err = 0),
                                   ![c].nwrite = @ + 1,
                                   ![c].nnotify = @ + n,
                                   ![c].nwait = @ + (IF r.err # 0 THEN 0 ELSE 1)]
    /\ UNCHANGED <<next_fence, lock, host, sends, fence_log, enc, othervars>>

\* wait_for_desc_update: done became true within wait_for_us(5) / wait_for(10)
FenceSeen(c) ==
    /\ call[c].pc = "wait"
    /\ FenceDone(desc.fence, call[c].fence)
    /\ call' = [call EXCEPT ![c].pc = "status", ![c].err = 0, ![c].matched = TRUE]
    /\ UNCHANGED <<desc, cmds, next_fence, lock, host, sends, fence_log, pending, enc, othervars>>

\* wait_for_desc_update: both waits expired with done still false
WaitTimeout(c) ==
    /\ call[c].pc = "wait"
    /\ ~FenceDone(desc.fence, call[c].fence)
    /\ call' = [call EXCEPT ![c].pc = "status", ![c].err = -ETIMEDOUT]
    /\ UNCHANGED <<desc, cmds, next_fence, lock, host, sends, fence_log, pending, enc, othervars>>

\* wait_for_desc_update: *status = desc->status; return err;  then pv_send's tail
ReadStatus(c) ==
    /\ call[c].pc = "status"
    /\ call' = [call EXCEPT ![c].pc = "unlock", ![c].status = desc.status,
                            ![c].err = SendResult(call[c].err, desc.status)]
    /\ UNCHANGED <<desc, cmds, next_fence, lock, host, sends, fence_log, pending, enc, othervars>>

\* spin_unlock_irqrestore(&vgpu->pv->lock, flags); return ret;
Unlock(c) ==
    /\ call[c].pc = "unlock"
    /\ lock' = Released(c)
    /\ call' = [call EXCEPT ![c] = IdleCall]
    /\ UNCHANGED <<desc, cmds, next_fence, host, sends, fence_log, pending, enc, othervars>>

\* --------------------------------------------------------------- the host
\* some caller is still in wait_for_desc_update for fence f
SenderWaits(f) ==
    \E c \in Callers : call[c].pc \in {"wait", "status"} /\ call[c].fence = f

\* the host consumes the message at head: header length, fence word
HostTake ==
    /\ host.pc = "idle"
    /\ desc.head # desc.tail
    /\ LET size == desc.size \div 4
           head == desc.head \div 4
           n == cmds[head].lo % (PV_CT_MSG_LEN_MASK + 1)
       IN  /\ desc' = [desc EXCEPT !.head = ((head + n + 1) % size) * 4]
           /\ pending' = pending - (n + 1)
           /\ \E s \in StatusSet :
                host' = [pc |-> "both", fence |-> cmds[(head + 1) % size],
                         status |-> s, first |-> "none",
                         late |-> host.late \/ ~SenderWaits(cmds[(head + 1) % size])]
    /\ UNCHANGED <<cmds, next_fence, lock, call, sends, fence_log, enc, othervars>>

\* the host stores the fence of the request it processed into the descriptor
HostStoreFence ==
    /\ host.pc \in {"both", "fence"}
    /\ desc' = [desc EXCEPT !.fence = host.fence]
    /\ host' = [host EXCEPT !.pc = IF host.pc = "both" THEN "status" ELSE "idle",
                            !.first = IF host.pc = "both" THEN "fence" ELSE @]
    /\ UNCHANGED <<cmds, next_fence, lock, call, sends, fence_log, pending, enc, othervars>>

\* the host stores the status of the request it processed into the descriptor
HostStoreStatus ==
    /\ host.pc \in {"both", "status"}
    /\ desc' = [desc EXCEPT !.status = host.status]
    /\ host' = [host EXCEPT !.pc = IF host.pc = "both" THEN "fence" ELSE "idle",
                            !.first = IF host.pc = "both" THEN "status" ELSE @]
    /\ UNCHANGED <<cmds, next_fence, lock, call, sends, fence_log, pending, enc, othervars>>

\* ------------------------------------------------------ the write scenario
\* no scenario set up
ScenIdle == [d |-> [head |-> 0, tail |-> 0, size |-> 0], buf |-> <<>>,
             action |-> <<>>, err |-> 0, done |-> FALSE]

\* ------------------------------------------------ device attach: the state
RECURSIVE BitAnd(_, _)
\* a & b on naturals
BitAnd(a, b) ==
    IF a = 0 \/ b = 0 THEN 0
    ELSE (IF (a % 2) + (b % 2) = 2 THEN 1 ELSE 0) + 2 * BitAnd(a \div 2, b \div 2)

\* VGT_MAGIC 0x4776544776544776 as four 16-bit parts, highest first
VGT_MAGIC == <<18294, 21575, 30292, 18294>>

\* values the probe can read at the magic offset: the host's, or a register
\* file without the interface (zeros, all ones)
MagicReads == {VGT_MAGIC, <<0, 0, 0, 0>>, <<Half - 1, Half - 1, Half - 1, Half - 1>>}

\* the capabilities intel_vgpu_config_pv_caps installs a table for
TableCaps == {PV_PPGTT, PV_GGTT, PV_SUBMISSION, PV_HW_CONTEXT}

\* all capabilities the guest asks for in intel_detect_vgpu
RequestedCaps == PV_PPGTT + PV_GGTT + PV_SUBMISSION + PV_HW_CONTEXT + PV_INTERRUPT

\* pv_caps values the host may hold in its register: every set of the five
\* known bits, with or without a bit the guest does not know
OfferedCaps == 0..(4 * PV_INTERRUPT - 1)

Engines == 0..(I915_NUM_ENGINES - 1)

PV_ELSP_OFF == PAGE_SIZE \div 8
PV_DESC_OFF == PAGE_SIZE \div 4
PV_CMD_OFF == PAGE_SIZE \div 2
PV_INTERRUPT_OFF == PAGE_SIZE \div 256

\* __pa(base) of the page the guest allocates
PageGpa == 1

\* get_zeroed_page: version area, CT descriptor and submission slots all zero
ZeroPage == [ver_major |-> 0, ver_minor |-> 0,
             desc |-> [addr |-> 0, size |-> 0, head |-> 0, tail |-> 0, fence |-> 0,
                       status |-> 0],
             submitted |-> [e \in Engines |-> FALSE]]

\* dev_priv->vgpu before intel_detect_vgpu, with the bookkeeping of what the
\* attach did: pages and pv objects allocated and freed, what was read from
\* the host, messages logged by level, the capabilities
\* intel_vgpu_config_pv_caps was called for and the tables it installed
DevIdle == [pc |-> "probe", active |-> FALSE, caps_pv |-> FALSE, pv_caps |-> 0,
            pv |-> 0, pvobj |-> [enabled |-> FALSE, cmds |-> 0, desc |-> 0, irq |-> 0,
                               send |-> FALSE, notify |-> FALSE],
            reg_pv_caps |-> 0, reg_gpa |-> 0, notified |-> FALSE,
            page |-> "none", page_allocs |-> 0, page_frees |-> 0,
            pv_allocs |-> 0, pv_frees |-> 0, shpage |-> ZeroPage,
            mapped |-> FALSE, magic |-> <<0, 0, 0, 0>>, version |-> 0,
            negotiated |-> FALSE, offered |-> 0, granted |-> 0,
            nsetup |-> 0, setup_ret |-> 0, errors |-> 0, infos |-> 0,
            tables |-> [c \in TableCaps |-> FALSE], asked |-> {}]

\* -------------------------------------------------- the engine: the state
Requests == 1..NumRq

\* a request the upper layers have not submitted yet
RqIdle == [st |-> "new", complete |-> FALSE, err |-> 0, refs |-> 0, nfail |-> 0,
           skipped |-> FALSE]

\* no __i915_request_reset call yet in this reset
NoResetCall == [rq |-> 0, started |-> FALSE, passed |-> FALSE, stalled |-> FALSE]

\* no PV operation called yet
OpIdle == [kind |-> "none", pc |-> "idle", err |-> 0, status |-> Zero32, send |-> 0,
           ret |-> 0, calls |-> 0]

\* nobody holds engine->active.lock, the tasklet and the reset caller are
\* outside their routines, the host has no notification pending
ThrIdle == [lock |-> "none", tpc |-> "idle", rpc |-> "idle", first |-> 0, out |-> 0,
            end |-> 0, sig |-> FALSE]

\* the engine after init: empty queue, inflight[] zeroed, slot not submitted
\* (pv_elsp[i]->submitted = false in intel_vgpu_setup_shared_page)
InitEngine ==
    /\ queue = <<>>
    /\ inflight = [p \in 0..EXECLIST_MAX_PORTS |-> 0]
    /\ slot = [descs |-> [n \in 0..(EXECLIST_MAX_PORTS - 1) |-> 0],
               ctx_gpa |-> [n \in 0..(EXECLIST_MAX_PORTS - 1) |-> 0],
               submitted |-> FALSE]
    /\ active_requests = <<>>
    /\ rq = [r \in Requests |-> RqIdle]
    /\ tasklet = [disabled |-> FALSE, sched |-> FALSE]
    /\ reset_call = NoResetCall
    /\ op = OpIdle
    /\ thr = ThrIdle

\* ---------------------------------------------------------- specification
\* intel_vgpu_setup_shared_page: zeroed page, desc->size and desc->addr set,
\* pv kzalloc'ed (next_fence = 0); or the same channel after 2^32 - 2 completed
\* sends, the ring drained
FenceStart == {Zero32, W(Half - 1, Half - 2)}

\* the channel as intel_vgpu_setup_shared_page leaves it, next_fence given
InitChannel ==
    /\ desc = [addr |-> CTWords * 4, size |-> CTWords * 4, head |-> 0, tail |-> 0,
               fence |-> next_fence, status |-> Zero32]
    /\ cmds = [i \in 0..(CTWords - 1) |-> Zero32]
    /\ lock = 0
    /\ call = [c \in Callers |-> IdleCall]
    /\ host = [pc |-> "idle", fence |-> Zero32, status |-> Zero32, first |-> "none",
               late |-> FALSE]
    /\ sends = 0
    /\ fence_log = <<>>
    /\ pending = 0

\* the parts of the model outside the CT channel, before anything ran
InitOther ==
    /\ scen = ScenIdle
    /\ dev = DevIdle
    /\ InitEngine

InitCT ==
    /\ next_fence \in FenceStart
    /\ InitChannel
    /\ enc = [len |-> 0, code |-> 0, header |-> Zero32, done |-> FALSE]
    /\ InitOther

NextCT ==
    \/ \E c \in Callers : Call(c)
    \/ \E c \in Callers : Acquire(c)
    \/ \E c \in Callers : AllocFence(c)
    \/ \E c \in Callers : Write(c)
    \/ \E c \in Callers : FenceSeen(c)
    \/ \E c \in Callers : WaitTimeout(c)
    \/ \E c \in Callers : ReadStatus(c)
    \/ \E c \in Callers : Unlock(c)
    \/ HostTake
    \/ HostStoreFence
    \/ HostStoreStatus

SpecCT == InitCT /\ [][NextCT]_vars

\* the caller holding pv->lock takes its next step
HolderStep ==
    \E c \in Callers :
        \/ AllocFence(c)
        \/ Write(c)
        \/ FenceSeen(c)
        \/ WaitTimeout(c)
        \/ ReadStatus(c)
        \/ Unlock(c)

\* some spinning caller takes the free lock
LockTaken == \E c \in Callers : Acquire(c)

\* the caller inside the send path keeps running: the code between lock and
\* unlock runs with interrupts off and has no blocking call, and
\* wait_for_us/wait_for return within their bound; a free spinlock is taken
\* by a caller spinning on it; nothing is assumed of the host
FairCT == WF_vars(HolderStep) /\ WF_vars(LockTaken)

\* a freshly set up channel (pv->next_fence = 0 from kzalloc)
InitFresh == InitCT /\ next_fence = Zero32

SpecCTFair == InitFresh /\ [][NextCT]_vars /\ FairCT

\* ------------------------------------------------------- header encoding
\* the (len, action code) pairs pv_send accepts from the senders of the
\* driver: len != 0, len & ~PV_CT_MSG_LEN_MASK == 0, a code of the enum
InitEnc ==
    /\ next_fence = Zero32
    /\ InitChannel
    /\ enc \in [len : 1..PV_CT_MSG_LEN_MASK, code : 0..PV_ACTION_HWCTX_RESET,
                header : {Zero32}, done : {FALSE}]
    /\ InitOther

\* pv_command_buffer_write computes the header of the message
Encode ==
    /\ ~enc.done
    /\ enc' = [enc EXCEPT !.header = MsgHeader(enc.len, U(enc.code)), !.done = TRUE]
    /\ UNCHANGED <<desc, cmds, next_fence, lock, call, host, sends, fence_log,
                   pending, othervars>>

NextEnc == Encode

SpecEnc == InitEnc /\ [][NextEnc]_vars

\* ------------------------------------------------------ the write scenario
\* the CT channel idle, as intel_vgpu_setup_shared_page leaves it
InitIdleCT ==
    /\ next_fence = Zero32
    /\ InitChannel
    /\ enc = [len |-> 0, code |-> 0, header |-> Zero32, done |-> FALSE]

\* an empty ring of ScenWords words, head = tail anywhere in the region, and
\* an action of ScenLen words to send
InitScen ==
    /\ InitIdleCT
    /\ \E p \in 0..(ScenWords - 1) : \E code \in {4, 9, 12} :
          scen = [d |-> [head |-> p * 4, tail |-> p * 4, size |-> ScenWords * 4],
                  buf |-> [i \in 0..(ScenWords - 1) |-> Zero32],
                  action |-> ActionArray(code, ScenLen), err |-> 0, done |-> FALSE]
    /\ dev = DevIdle
    /\ InitEngine

\* pv_command_buffer_write on the scenario's ring, with fence 1
ScenWrite ==
    /\ ~scen.done
    /\ \E r \in { pv_command_buffer_write(scen.d, scen.buf, scen.action,
                                           Len(scen.action), U(1)) } :
          scen' = [scen EXCEPT !.d.tail = r.tail, !.buf = r.cmds, !.err = r.err,
                               !.done = TRUE]
    /\ UNCHANGED <<desc, cmds, next_fence, lock, call, host, sends, fence_log,
                   pending, enc, dev, queue, inflight, slot, active_requests, rq,
                   tasklet, reset_call, op, thr>>

NextScen == ScenWrite

SpecScen == InitScen /\ [][NextScen]_vars

\* ------------------------------------------------------------ device attach
\* a version check that lets every host version pass
VersionAny(v) == TRUE

\* !(version_major < VGT_VERSION_MAJOR)
VersionOk(v) == ~(v < VGT_VERSION_MAJOR)

\* a negotiation that keeps what the guest asked for
NegotiateKeepRequested(requested, offered) == requested

\* pvcaps = dev_priv->vgpu.pv_caps & gvt_pvcaps
Negotiate(requested, offered) == BitAnd(requested, offered)

\* a negotiation that goes on with an empty set
EmptyGrantNever(pvcaps) == FALSE

\* if (!pvcaps) return false;
EmptyGrant(pvcaps) == pvcaps = 0

\* an enable test that does not look at the granted set
EnabledIgnoringGrant(d, cap) == d.active /\ d.caps_pv

\* intel_vgpu_enabled_pv_caps
intel_vgpu_enabled_pv_caps(d, cap) ==
    d.active /\ d.caps_pv /\ BitAnd(d.pv_caps, cap) # 0

\* an error path that keeps the page
KeepPage(d) == d

\* __free_page(virt_to_page(base))
FreePage(d) == [d EXCEPT !.page = "freed", !.page_frees = @ + 1]

\* intel_vgpu_setup_shared_page: the device after the call, setup_ret its
\* return value; alloc_ok, pv_ok: the two allocations succeed; echo: what
\* the host returns for the address register; vmaj, vmin: the version the
\* host wrote to the page when notified
intel_vgpu_setup_shared_page(d, alloc_ok, echo, vmaj, vmin, pv_ok) ==
    LET d0 == [d EXCEPT !.nsetup = @ + 1]
        d1 == [d0 EXCEPT !.page = "held", !.page_allocs = @ + 1,
                         !.shpage = ZeroPage, !.reg_gpa = echo]
        d2 == [d1 EXCEPT !.notified = TRUE, !.shpage.ver_major = vmaj,
                         !.shpage.ver_minor = vmin]
        d3 == [d2 EXCEPT !.pv = 1, !.pv_allocs = @ + 1,
                         !.pvobj = [enabled |-> TRUE, cmds |-> PV_CMD_OFF,
                                    desc |-> PV_DESC_OFF, irq |-> PV_INTERRUPT_OFF,
                                    send |-> TRUE, notify |-> TRUE],
                         !.shpage.desc.size = PAGE_SIZE \div 2,
                         !.shpage.desc.addr = PV_CMD_OFF,
                         !.shpage.submitted = [e \in Engines |-> FALSE],
                         !.setup_ret = 0]
    IN  IF ~alloc_ok THEN [d0 EXCEPT !.setup_ret = -ENOMEM]
        ELSE IF echo # PageGpa THEN [FreePage(d1) EXCEPT !.setup_ret = -EIO]
        ELSE IF vmaj # PV_MAJOR \/ vmin # PV_MINOR
             THEN [FreePage(d2) EXCEPT !.setup_ret = -EIO]
        ELSE IF ~pv_ok THEN [FreePage(d2) EXCEPT !.setup_ret = -ENOMEM]
        ELSE d3

\* a destroy that forgets the channel-state object
intel_destroy_vgpu_leak(d) ==
    IF ~d.active \/ d.pv = 0 THEN d ELSE FreePage(d)

\* intel_destroy_vgpu
intel_destroy_vgpu(d) ==
    IF ~d.active \/ d.pv = 0 THEN d
    ELSE [FreePage(d) EXCEPT !.pv_frees = @ + 1]

\* intel_detect_vgpu up to the call of intel_vgpu_check_pv_caps
DetectVgpu ==
    /\ dev.pc = "probe"
    /\ \E gen_ok, map_ok, caps_pv \in BOOLEAN : \E magic \in MagicReads :
       \E version \in 0..(VGT_VERSION_MAJOR + 1) :
          dev' = IF ~gen_ok THEN [dev EXCEPT !.pc = "attached"]
                 ELSE IF ~map_ok THEN [dev EXCEPT !.pc = "attached", !.errors = @ + 1]
                 ELSE IF magic # VGT_MAGIC
                      THEN [dev EXCEPT !.pc = "attached", !.mapped = TRUE,
                                       !.magic = magic]
                 ELSE IF ~VersionOk(version)
                      THEN [dev EXCEPT !.pc = "attached", !.mapped = TRUE,
                                       !.magic = magic, !.version = version,
                                       !.infos = @ + 1]
                 ELSE [dev EXCEPT !.pc = "negotiate", !.mapped = TRUE,
                                  !.magic = magic, !.version = version,
                                  !.caps_pv = caps_pv, !.active = TRUE,
                                  !.pv_caps = RequestedCaps]
    /\ UNCHANGED <<desc, cmds, next_fence, lock, call, host, sends, fence_log,
                   pending, enc, scen, queue, inflight, slot, active_requests, rq,
                   tasklet, reset_call, op, thr>>

\* intel_vgpu_check_pv_caps up to the call of intel_vgpu_setup_shared_page
CheckPvCaps ==
    /\ dev.pc = "negotiate"
    /\ \E gvt_pvcaps \in OfferedCaps :
          LET pvcaps == Negotiate(dev.pv_caps, gvt_pvcaps)
          IN  dev' = IF ~dev.caps_pv THEN [dev EXCEPT !.pc = "attached", !.infos = @ + 1]
                     ELSE [dev EXCEPT !.pc = IF EmptyGrant(pvcaps) THEN "attached"
                                                                   ELSE "setup",
                                      !.negotiated = TRUE, !.offered = gvt_pvcaps,
                                      !.granted = pvcaps, !.pv_caps = pvcaps,
                                      !.reg_pv_caps = pvcaps, !.infos = @ + 1]
    /\ UNCHANGED <<desc, cmds, next_fence, lock, call, host, sends, fence_log,
                   pending, enc, scen, queue, inflight, slot, active_requests, rq,
                   tasklet, reset_call, op, thr>>

\* a failed setup that leaves the granted set as negotiated
KeepGrant(d) == d

\* dev_priv->vgpu.pv_caps = 0; writel(0, shared_area + vgtif_offset(pv_caps))
WithdrawGrant(d) == [d EXCEPT !.pv_caps = 0, !.reg_pv_caps = 0]

\* intel_vgpu_setup_shared_page and what intel_vgpu_check_pv_caps does with
\* its return value
SetupSharedPage ==
    /\ dev.pc = "setup"
    /\ \E alloc_ok, pv_ok \in BOOLEAN : \E echo \in {PageGpa, 0} :
       \E vmaj \in 0..(PV_MAJOR + 1) : \E vmin \in 0..(PV_MINOR + 1) :
          LET d == intel_vgpu_setup_shared_page(dev, alloc_ok, echo, vmaj, vmin, pv_ok)
          IN  dev' = IF d.setup_ret # 0
                     THEN [WithdrawGrant(d) EXCEPT !.pc = "attached"]
                     ELSE [d EXCEPT !.pc = "attached"]
    /\ UNCHANGED <<desc, cmds, next_fence, lock, call, host, sends, fence_log,
                   pending, enc, scen, queue, inflight, slot, active_requests, rq,
                   tasklet, reset_call, op, thr>>

\* intel_vgpu_config_pv_caps(dev_priv, cap, data), after the attach
ConfigPvCaps(cap) ==
    /\ dev.pc = "attached"
    /\ dev' = IF intel_vgpu_enabled_pv_caps(dev, cap) /\ cap \in TableCaps
              THEN [dev EXCEPT !.tables[cap] = TRUE, !.asked = @ \cup {cap}]
              ELSE [dev EXCEPT !.asked = @ \cup {cap}]
    /\ UNCHANGED <<desc, cmds, next_fence, lock, call, host, sends, fence_log,
                   pending, enc, scen, queue, inflight, slot, active_requests, rq,
                   tasklet, reset_call, op, thr>>

\* intel_destroy_vgpu at device release
DestroyVgpu ==
    /\ dev.pc = "attached"
    /\ dev' = [intel_destroy_vgpu(dev) EXCEPT !.pc = "destroyed"]
    /\ UNCHANGED <<desc, cmds, next_fence, lock, call, host, sends, fence_log,
                   pending, enc, scen, queue, inflight, slot, active_requests, rq,
                   tasklet, reset_call, op, thr>>

InitAttach ==
    /\ InitIdleCT
    /\ scen = ScenIdle
    /\ dev = DevIdle
    /\ InitEngine

NextAttach ==
    \/ DetectVgpu
    \/ CheckPvCaps
    \/ SetupSharedPage
    \/ \E cap \in TableCaps \cup {PV_INTERRUPT} : ConfigPvCaps(cap)
    \/ DestroyVgpu

SpecAttach == InitAttach /\ [][NextAttach]_vars

\* ------------------------------------------------------------- the engine
\* rq->context of request r: two contexts, so that consecutive requests may
\* or may not share one
CtxOf(r) == IF r % 3 = 0 THEN 2 ELSE 1

\* a last port one past the engine's ports
LastPortWide == EXECLIST_MAX_PORTS

\* execlists->port_mask: index of the last port
LastPort == EXECLIST_MAX_PORTS - 1

\* schedule_in: i915_request_get
schedule_in(rqs, r) == [rqs EXCEPT ![r].refs = @ + 1]

\* schedule_out: i915_request_put
schedule_out(rqs, r) == [rqs EXCEPT ![r].refs = @ - 1]

\* __i915_request_submit: the request moves to engine->active.requests
SubmitRq(rqs, r) == [rqs EXCEPT ![r].st = "active"]

RECURSIVE DonePortsLive(_, _, _)
\* a reclaim loop that does not test completion
DonePortsLive(infl, rqs, p) ==
    IF p <= EXECLIST_MAX_PORTS /\ infl[p] # 0
    THEN DonePortsLive(infl, rqs, p + 1)
    ELSE p

RECURSIVE DonePorts(_, _, _)
\* for (port = inflight; (rq = *port); port++) if (!completed(rq)) break;
\* the index the loop stops at (the array ends with a NULL)
DonePorts(infl, rqs, p) ==
    IF p <= EXECLIST_MAX_PORTS /\ infl[p] # 0 /\ rqs[infl[p]].complete
    THEN DonePorts(infl, rqs, p + 1)
    ELSE p

RECURSIVE ReleasePorts(_, _, _, _)
\* schedule_out of the requests in ports p .. idx - 1
ReleasePorts(rqs, infl, p, idx) ==
    IF p < idx THEN ReleasePorts(schedule_out(rqs, infl[p]), infl, p + 1, idx)
    ELSE rqs

\* a reclaim that leaves the array as it is
CompactNot(infl, idx) == infl

\* memmove(inflight, port, rem * sizeof(*port)), rem = ARRAY_SIZE - idx: the
\* entries from idx on move to the front, the last idx entries stay
Compact(infl, idx) ==
    [i \in DOMAIN infl |-> IF i + idx <= EXECLIST_MAX_PORTS THEN infl[i + idx]
                                                             ELSE infl[i]]

\* a dispatch test that does not look at the slot
MayDequeueAlways(submitted) == TRUE

\* if (!pv_elsp->submitted) pv_dequeue(engine);
MayDequeue(submitted) == ~submitted

RECURSIVE FillSlot(_, _, _, _, _)
\* pv_submit's loop: descs[n], ctx_gpa[n] for the ports out .. end - 1; the
\* descriptor is identified by the request whose tail it carries, the
\* context address by the context
FillSlot(sl, infl, out, end, n) ==
    IF out < end
    THEN FillSlot([sl EXCEPT !.descs[n] = infl[out], !.ctx_gpa[n] = CtxOf(infl[out])],
                  infl, out + 1, end, n + 1)
    ELSE sl

\* pv_submit up to the wait: memset(descs), the loop, submitted = true
pv_submit(sl, infl, out, end) ==
    [FillSlot([sl EXCEPT !.descs = [n \in DOMAIN sl.descs |-> 0]], infl, out, end, 0)
        EXCEPT !.submitted = TRUE]

\* a context test that never coalesces
SameContextNever(a, b) == FALSE

\* rq->context == last->context
SameContext(a, b) == CtxOf(a) = CtxOf(b)

RECURSIVE DequeueLoop(_, _, _, _, _, _, _)
\* the loop of pv_dequeue over the queue, up to the label done
DequeueLoop(q, infl, rqs, act, port, last, submit) ==
    IF q = <<>>
    THEN [queue |-> q, inflight |-> infl, rq |-> rqs, active |-> act, port |-> port,
          last |-> last, submit |-> submit]
    ELSE IF last # 0 /\ ~SameContext(Head(q), last)
    THEN IF port = LastPort
         THEN [queue |-> q, inflight |-> infl, rq |-> rqs, active |-> act,
               port |-> port, last |-> last, submit |-> submit]
         ELSE DequeueLoop(Tail(q), [infl EXCEPT ![port] = last],
                          SubmitRq(schedule_in(rqs, last), Head(q)),
                          Append(act, Head(q)), port + 1, Head(q), TRUE)
    ELSE DequeueLoop(Tail(q), infl, SubmitRq(rqs, Head(q)), Append(act, Head(q)),
                     port, Head(q), TRUE)

\* a dequeue that always starts at port 0
FirstFreeZero(infl) == 0

\* if (last) { if (*++first) return; last = NULL; }: the port the dispatch
\* starts at
FirstFree(infl) == IF infl[0] # 0 THEN 1 ELSE 0

\* pv_dequeue: [queue, inflight, rq, active, slot], and the out and end it
\* passes to pv_submit
pv_dequeue(q, infl, rqs, act, sl) ==
    LET first == FirstFree(infl)
        l == DequeueLoop(q, infl, rqs, act, first, 0, FALSE)
        infl2 == [l.inflight EXCEPT ![l.port] = l.last, ![l.port + 1] = 0]
    IN  IF infl[0] # 0 /\ infl[1] # 0
        THEN [queue |-> q, inflight |-> infl, rq |-> rqs, active |-> act, slot |-> sl,
              submit |-> FALSE, out |-> 0, end |-> 0]
        ELSE IF l.submit
        THEN [queue |-> l.queue, inflight |-> infl2, rq |-> schedule_in(l.rq, l.last),
              active |-> l.active, slot |-> pv_submit(sl, infl2, first, l.port + 1),
              submit |-> TRUE, out |-> first, end |-> l.port + 1]
        ELSE [queue |-> l.queue, inflight |-> l.inflight, rq |-> l.rq,
              active |-> l.active, slot |-> sl, submit |-> FALSE, out |-> 0, end |-> 0]

RECURSIVE LivePorts(_, _)
\* for (port = execlists->active; (rq = *port); port++): where it stops
LivePorts(infl, p) ==
    IF p <= EXECLIST_MAX_PORTS /\ infl[p] # 0 THEN LivePorts(infl, p + 1) ELSE p

\* a cancel that releases the ports and leaves the array
cancel_port_requests_keep(infl, rqs) ==
    [inflight |-> infl, rq |-> ReleasePorts(rqs, infl, 0, LivePorts(infl, 0))]

\* cancel_port_requests: schedule_out every port up to the NULL, then memset
cancel_port_requests(infl, rqs) ==
    [inflight |-> [i \in DOMAIN infl |-> 0],
     rq |-> ReleasePorts(rqs, infl, 0, LivePorts(infl, 0))]

\* a completion that sets no error
FailRequestQuiet(rqs, r, skip) ==
    [rqs EXCEPT ![r].complete = TRUE, ![r].nfail = @ + 1,
                ![r].skipped = @ \/ skip]

\* dma_fence_set_error(&rq->fence, -EIO), through i915_request_skip (which
\* also blanks the request's payload) when skip, then
\* i915_request_mark_complete(rq)
FailRequest(rqs, r, skip) ==
    [rqs EXCEPT ![r].err = -EIO, ![r].complete = TRUE, ![r].nfail = @ + 1,
                ![r].skipped = @ \/ skip]

\* nfail counts the failed completions of the cancel in progress
Observe(rqs) == [r \in DOMAIN rqs |-> [rqs[r] EXCEPT !.nfail = 0]]

RECURSIVE FailAll(_, _, _)
\* FailRequest for every request of a list
FailAll(rqs, list, skip) ==
    IF list = <<>> THEN rqs
    ELSE FailAll(FailRequest(rqs, Head(list), skip), Tail(list), skip)

RECURSIVE SubmitAll(_, _)
\* __i915_request_submit for every request of a list
SubmitAll(rqs, list) ==
    IF list = <<>> THEN rqs ELSE SubmitAll(SubmitRq(rqs, Head(list)), Tail(list))

\* the incomplete requests of engine->active.requests, oldest first
Incomplete(act, rqs) == SelectSeq(act, LAMBDA r : ~rqs[r].complete)

RECURSIVE Unsubmit(_, _)
\* __i915_request_unsubmit for every request of a list
Unsubmit(rqs, list) ==
    IF list = <<>> THEN rqs
    ELSE Unsubmit([rqs EXCEPT ![Head(list)].st = "queued"], Tail(list))

\* a reset call that uses the stalled it was passed
ResetCallAsPassed(r, started, stalled) ==
    [rq |-> r, started |-> started, passed |-> stalled, stalled |-> stalled]

\* if (!i915_request_started(rq)) stalled = false; __i915_request_reset(rq, stalled)
ResetCall(r, started, stalled) ==
    [rq |-> r, started |-> started, passed |-> stalled, stalled |-> started /\ stalled]

\* a tasklet that runs whenever it is scheduled
TaskletRunsAlways(t) == t.sched

\* the softirq runs a scheduled tasklet only while it is not disabled
TaskletRuns(t) == t.sched /\ ~t.disabled

\* tasklet_hi_schedule
Schedule(t) == [t EXCEPT !.sched = TRUE]

\* a prepare that also drops a scheduled run
pv_reset_prepare_drop(t) == [t EXCEPT !.disabled = TRUE, !.sched = FALSE]

\* pv_reset_prepare: __tasklet_disable_sync_once
pv_reset_prepare(t) == [t EXCEPT !.disabled = TRUE]

\* a finish that enables and does not schedule
pv_reset_finish_quiet(t) == [t EXCEPT !.disabled = FALSE]

\* pv_reset_finish: if (__tasklet_enable(t)) tasklet_hi_schedule(t)
pv_reset_finish(t) == Schedule([t EXCEPT !.disabled = FALSE])

\* --------------------------------------------------------- engine operations
engvars == <<queue, inflight, slot, active_requests, rq, tasklet, reset_call>>

restvars == <<desc, cmds, next_fence, lock, call, host, sends, fence_log, pending,
              enc, scen, dev, op>>

\* the upper layer submits request r: it enters the pending queue and the
\* tasklet is scheduled
Enqueue(r) ==
    /\ rq[r].st = "new"
    /\ rq' = [rq EXCEPT ![r].st = "queued"]
    /\ queue' = Append(queue, r)
    /\ tasklet' = Schedule(tasklet)
    /\ UNCHANGED <<inflight, slot, active_requests, reset_call, restvars, thr>>

\* the hardware completes a submitted request; its interrupt schedules the
\* tasklet
Complete(r) ==
    /\ rq[r].st = "active"
    /\ ~rq[r].complete
    /\ rq' = [rq EXCEPT ![r].complete = TRUE]
    /\ tasklet' = Schedule(tasklet)
    /\ UNCHANGED <<queue, inflight, slot, active_requests, reset_call, restvars, thr>>

\* any other engine interrupt schedules the tasklet
Interrupt ==
    /\ tasklet' = Schedule(tasklet)
    /\ UNCHANGED <<queue, inflight, slot, active_requests, rq, reset_call, restvars, thr>>

\* the host has consumed the slot and clears the flag
HostAck ==
    /\ slot.submitted
    /\ slot' = [slot EXCEPT !.submitted = FALSE]
    /\ UNCHANGED <<queue, inflight, active_requests, rq, tasklet, reset_call, restvars, thr>>

\* the reclaim of vgpu_pv_submission_tasklet, from the current state
TaskletReclaim ==
    LET idx == DonePorts(inflight, rq, 0)
    IN  [rq |-> ReleasePorts(rq, inflight, 0, idx),
         inflight |-> IF idx # 0 THEN Compact(inflight, idx) ELSE inflight]

\* the pv_dequeue that follows the reclaim
TaskletDispatch ==
    pv_dequeue(queue, TaskletReclaim.inflight, TaskletReclaim.rq, active_requests, slot)

\* vgpu_pv_submission_tasklet, with pv_dequeue and pv_submit; acked is whether
\* the host clears the flag within the bounded wait (if not, the slot stays
\* submitted and the failure is logged)
Tasklet ==
    /\ TaskletRuns(tasklet)
    /\ LET rq1 == TaskletReclaim.rq
           infl1 == TaskletReclaim.inflight
           d == TaskletDispatch
       IN  IF MayDequeue(slot.submitted)
           THEN \E acked \in BOOLEAN :
                  /\ queue' = d.queue
                  /\ inflight' = d.inflight
                  /\ rq' = d.rq
                  /\ active_requests' = d.active
                  /\ slot' = IF d.submit /\ acked
                             THEN [d.slot EXCEPT !.submitted = FALSE] ELSE d.slot
           ELSE /\ inflight' = infl1
                /\ rq' = rq1
                /\ UNCHANGED <<queue, slot, active_requests>>
    /\ tasklet' = [tasklet EXCEPT !.sched = FALSE]
    /\ UNCHANGED <<reset_call, restvars, thr>>

\* pv_reset_prepare
ResetPrepare ==
    /\ tasklet' = pv_reset_prepare(tasklet)
    /\ UNCHANGED <<queue, inflight, slot, active_requests, rq, reset_call, restvars, thr>>

\* the body of pv_reset_rewind under the engine lock, with
\* execlists_unwind_incomplete_requests
RewindBody ==
    /\ \E started \in BOOLEAN, stalled \in BOOLEAN :
         LET c == cancel_port_requests(inflight, rq)
             back == Incomplete(active_requests, c.rq)
             rq1 == Unsubmit(c.rq, back)
         IN  /\ inflight' = c.inflight
             /\ queue' = back \o queue
             /\ active_requests' = SelectSeq(active_requests, LAMBDA r : rq[r].complete)
             /\ rq' = rq1
             /\ reset_call' = IF back = <<>> THEN reset_call
                                             ELSE ResetCall(Head(back), started, stalled)
    /\ UNCHANGED <<slot, tasklet, restvars>>

\* pv_reset_rewind, called between reset_prepare and reset_finish
ResetRewind ==
    /\ tasklet.disabled
    /\ RewindBody
    /\ UNCHANGED thr

\* the body of pv_cancel_requests under the engine lock
CancelBody ==
    /\ LET c == cancel_port_requests(inflight, rq)
       IN  /\ inflight' = c.inflight
           /\ rq' = FailAll(SubmitAll(FailAll(Observe(c.rq), active_requests, TRUE),
                                      queue),
                            queue, FALSE)
           /\ active_requests' = active_requests \o queue
           /\ queue' = <<>>
    /\ UNCHANGED <<slot, tasklet, reset_call, restvars>>

\* pv_cancel_requests, called between reset_prepare and reset_finish
ResetCancel ==
    /\ tasklet.disabled
    /\ CancelBody
    /\ UNCHANGED thr

\* pv_reset_finish; the reset is over
ResetFinish ==
    /\ tasklet.disabled
    /\ tasklet' = pv_reset_finish(tasklet)
    /\ reset_call' = NoResetCall
    /\ UNCHANGED <<queue, inflight, slot, active_requests, rq, restvars, thr>>

InitEng ==
    /\ InitIdleCT
    /\ scen = ScenIdle
    /\ dev = DevIdle
    /\ InitEngine

NextEng ==
    \/ \E r \in Requests : Enqueue(r)
    \/ \E r \in Requests : Complete(r)
    \/ HostAck
    \/ Interrupt
    \/ Tasklet
    \/ ResetPrepare
    \/ ResetRewind
    \/ ResetCancel
    \/ ResetFinish

SpecEng == InitEng /\ [][NextEng]_vars

\* a scheduled tasklet that is not disabled is run by the softirq
SpecEngKick == InitEng /\ [][NextEng]_vars /\ WF_vars(Tasklet)

\* the engine between resets that neither rewind nor cancel
NextLive ==
    \/ \E r \in Requests : Enqueue(r)
    \/ \E r \in Requests : Complete(r)
    \/ HostAck
    \/ Interrupt
    \/ Tasklet
    \/ ResetPrepare
    \/ ResetFinish

\* a scheduled tasklet that is not disabled is run by the softirq; the engine
\* keeps raising interrupts and the hardware completes what was submitted to
\* it; nothing is assumed of the host or of the callers of the reset
FairEng ==
    /\ WF_vars(Tasklet)
    /\ WF_vars(Interrupt)
    /\ \A r \in Requests : WF_vars(Complete(r))

SpecEngFair == InitEng /\ [][NextLive]_vars /\ FairEng


\* ----------------------------------- the engine, one statement at a time
\* the tasklet and the reset caller run on different CPUs; here each of their
\* routines is taken apart at the points where the other may be observed
\* a lock acquisition that takes nothing
spin_lock_skip(l, who) == l

\* spin_lock_irqsave(&engine->active.lock, flags): the holder from here on
spin_lock_irqsave(l, who) == who

\* the acquisition goes through once nobody holds the lock
EngineLockFree(l) == l = "none"

\* a fill loop that stops after its first entry
FillMoreNever(out, end) == FALSE

\* } while (out != end);
FillMore(out, end) == out # end

\* the softirq starts the tasklet, which takes the engine lock
StepLock ==
    /\ thr.tpc = "idle"
    /\ TaskletRuns(tasklet)
    /\ EngineLockFree(thr.lock)
    /\ tasklet' = [tasklet EXCEPT !.sched = FALSE]
    /\ thr' = [thr EXCEPT !.lock = spin_lock_irqsave(@, "tasklet"), !.tpc = "locked"]
    /\ UNCHANGED <<queue, inflight, slot, active_requests, rq, reset_call, restvars>>

\* the reclaim loop and the memmove
StepReclaim ==
    /\ thr.tpc = "locked"
    /\ inflight' = TaskletReclaim.inflight
    /\ rq' = TaskletReclaim.rq
    /\ thr' = [thr EXCEPT !.tpc = "reclaimed"]
    /\ UNCHANGED <<queue, slot, active_requests, tasklet, reset_call, restvars>>

\* if (!pv_elsp->submitted) pv_dequeue(engine), up to its call of pv_submit
StepDequeue ==
    /\ thr.tpc = "reclaimed"
    /\ IF MayDequeue(slot.submitted)
       THEN LET d == pv_dequeue(queue, inflight, rq, active_requests, slot)
            IN  /\ queue' = d.queue
                /\ inflight' = d.inflight
                /\ rq' = d.rq
                /\ active_requests' = d.active
                /\ thr' = IF d.submit
                          THEN [thr EXCEPT !.tpc = "memset", !.first = d.out,
                                           !.out = d.out, !.end = d.end]
                          ELSE [thr EXCEPT !.tpc = "unlock"]
       ELSE /\ thr' = [thr EXCEPT !.tpc = "unlock"]
            /\ UNCHANGED <<queue, inflight, rq, active_requests>>
    /\ UNCHANGED <<slot, tasklet, reset_call, restvars>>

\* pv_submit: memset(pv_elsp->descs, 0, sizeof(pv_elsp->descs))
StepMemset ==
    /\ thr.tpc = "memset"
    /\ slot' = [slot EXCEPT !.descs = [n \in DOMAIN slot.descs |-> 0]]
    /\ thr' = [thr EXCEPT !.tpc = "fill"]
    /\ UNCHANGED <<queue, inflight, active_requests, rq, tasklet, reset_call, restvars>>

\* pv_submit: one turn of the do-while, descs[n] and ctx_gpa[n] of port out
StepFill ==
    /\ thr.tpc = "fill"
    /\ LET n == thr.out - thr.first
       IN  slot' = [slot EXCEPT !.descs[n] = inflight[thr.out],
                                !.ctx_gpa[n] = CtxOf(inflight[thr.out])]
    /\ thr' = [thr EXCEPT !.out = @ + 1,
                          !.tpc = IF FillMore(thr.out + 1, thr.end) THEN "fill"
                                                                    ELSE "filled"]
    /\ UNCHANGED <<queue, inflight, active_requests, rq, tasklet, reset_call, restvars>>

\* pv_submit: pv_elsp->submitted = true
StepMark ==
    /\ thr.tpc = "filled"
    /\ slot' = [slot EXCEPT !.submitted = TRUE]
    /\ thr' = [thr EXCEPT !.tpc = "marked"]
    /\ UNCHANGED <<queue, inflight, active_requests, rq, tasklet, reset_call, restvars>>

\* a dispatch that tells the host through a message on the CT channel
SubmitBySend(ch) ==
    [ch EXCEPT !.next_fence = pv_get_next_fence(@), !.tail = (@ + 8) % (CTWords * 4)]

\* what pv_submit does to the CT channel (tail, fence counter, lock): nothing,
\* the host is told by the write of the submit register alone
SubmitByRegister(ch) == ch

\* pv_submit: writel(PV_ACTION_ELSP_SUBMISSION, execlists->submit_reg)
StepSignal ==
    /\ thr.tpc = "marked"
    /\ thr' = [thr EXCEPT !.tpc = "signalled", !.sig = TRUE]
    /\ LET ch == SubmitByRegister([tail |-> desc.tail, next_fence |-> next_fence,
                                   lock |-> lock])
       IN  /\ desc' = [desc EXCEPT !.tail = ch.tail]
           /\ next_fence' = ch.next_fence
           /\ lock' = ch.lock
    /\ UNCHANGED <<engvars, cmds, call, host, sends, fence_log, pending, enc, scen,
                   dev, op>>

\* pv_submit: wait_for_atomic_us(done, 1000) returns, the flag cleared or the
\* time up
StepWait ==
    /\ thr.tpc = "signalled"
    /\ \E timeout \in BOOLEAN : ~slot.submitted \/ timeout
    /\ thr' = [thr EXCEPT !.tpc = "unlock"]
    /\ UNCHANGED <<engvars, restvars>>

\* spin_unlock_irqrestore(&engine->active.lock, flags); the tasklet returns
StepUnlock ==
    /\ thr.tpc = "unlock"
    /\ thr' = [thr EXCEPT !.tpc = "idle", !.lock = "none", !.first = 0, !.out = 0,
                          !.end = 0]
    /\ UNCHANGED <<engvars, restvars>>

\* the host takes the notification, reads the slot and clears the flag
StepHostAck ==
    /\ thr.sig
    /\ slot' = [slot EXCEPT !.submitted = FALSE]
    /\ thr' = [thr EXCEPT !.sig = FALSE]
    /\ UNCHANGED <<queue, inflight, active_requests, rq, tasklet, reset_call, restvars>>

\* pv_reset_prepare: the tasklet is disabled ...
StepPrepare ==
    /\ thr.rpc = "idle"
    /\ tasklet' = pv_reset_prepare(tasklet)
    /\ thr' = [thr EXCEPT !.rpc = "prepare"]
    /\ UNCHANGED <<queue, inflight, slot, active_requests, rq, reset_call, restvars>>

\* ... and (disable_sync) the call returns once no run of it is in progress
StepPrepareSync ==
    /\ thr.rpc = "prepare"
    /\ thr.tpc = "idle"
    /\ thr' = [thr EXCEPT !.rpc = "prepared"]
    /\ UNCHANGED <<engvars, restvars>>

\* pv_reset_rewind or pv_cancel_requests: spin_lock_irqsave
StepResetLock(kind) ==
    /\ thr.rpc = "prepared"
    /\ EngineLockFree(thr.lock)
    /\ thr' = [thr EXCEPT !.lock = spin_lock_irqsave(@, "reset"), !.rpc = kind]
    /\ UNCHANGED <<engvars, restvars>>

\* pv_reset_rewind between its lock and its unlock
StepRewind ==
    /\ thr.rpc = "rewind"
    /\ RewindBody
    /\ thr' = [thr EXCEPT !.rpc = "unlock"]

\* pv_cancel_requests between its lock and its unlock
StepCancel ==
    /\ thr.rpc = "cancel"
    /\ CancelBody
    /\ thr' = [thr EXCEPT !.rpc = "unlock"]

\* spin_unlock_irqrestore at the end of the rewind or of the cancel
StepResetUnlock ==
    /\ thr.rpc = "unlock"
    /\ thr' = [thr EXCEPT !.rpc = "prepared", !.lock = "none"]
    /\ UNCHANGED <<engvars, restvars>>

\* pv_reset_finish
StepFinish ==
    /\ thr.rpc = "prepared"
    /\ tasklet' = pv_reset_finish(tasklet)
    /\ reset_call' = NoResetCall
    /\ thr' = [thr EXCEPT !.rpc = "idle"]
    /\ UNCHANGED <<queue, inflight, slot, active_requests, rq, restvars>>

\* the submission of a request queues it under the engine lock
StepEnqueue(r) ==
    /\ EngineLockFree(thr.lock)
    /\ Enqueue(r)

\* the last NumStepRq requests, of which the last two differ in context
StepRequests == (NumRq - NumStepRq + 1)..NumRq

\* the tasklet between its lock and its return
TaskletBody ==
    \/ StepReclaim
    \/ StepDequeue
    \/ StepMemset
    \/ StepFill
    \/ StepMark
    \/ StepSignal
    \/ StepWait
    \/ StepUnlock

NextStep ==
    \/ \E r \in StepRequests : StepEnqueue(r)
    \/ \E r \in StepRequests : Complete(r)
    \/ Interrupt
    \/ StepHostAck
    \/ StepLock
    \/ TaskletBody
    \/ StepPrepare
    \/ StepPrepareSync
    \/ \E kind \in {"rewind", "cancel"} : StepResetLock(kind)
    \/ StepRewind
    \/ StepCancel
    \/ StepResetUnlock
    \/ StepFinish

\* a tasklet that has started runs to its end: nothing in it blocks, the
\* wait is bounded
SpecStep == InitEng /\ [][NextStep]_vars /\ WF_vars(TaskletBody)

\* ------------------------------------------- address-space and context ops
\* the operations of i915_vgpu.c that hand a result to their caller:
\* gen8_ppgtt_alloc_pv, ppgtt_bind_vma_pv, ggtt_bind_vma_pv, vgpu_hwctx_pv_update
OpKinds == {"alloc", "ppgtt_bind", "ggtt_bind", "hwctx"}

\* what the wait inside intel_vgpu_pv_send may return
WaitResults == {0, -ETIMEDOUT, -ENOSPC}

\* the status words the host may leave in the descriptor
HostStatus == {Zero32, U(1), U(EIO)}

\* what the operation returns once its send returned sent: the two bind
\* operations end in "return 0", the other two return the send's result
OpReturn(kind, sent) == IF kind \in {"ppgtt_bind", "ggtt_bind"} THEN 0 ELSE sent

\* the caller invokes an operation
OpCall(kind) ==
    /\ op.pc \in {"idle", "done"}
    /\ op.calls < MaxOps
    /\ op' = [kind |-> kind, pc |-> "called", err |-> 0, status |-> Zero32, send |-> 0,
              ret |-> 0, calls |-> op.calls + 1]
    /\ UNCHANGED <<desc, cmds, next_fence, lock, call, host, sends, fence_log,
                   pending, enc, scen, dev, engvars, thr>>

\* its intel_vgpu_pv_send returns: the wait gave err, the host left status
OpSend(err, status) ==
    /\ op.pc = "called"
    /\ op' = [op EXCEPT !.pc = "sent", !.err = err, !.status = status,
                        !.send = SendResult(err, status)]
    /\ UNCHANGED <<desc, cmds, next_fence, lock, call, host, sends, fence_log,
                   pending, enc, scen, dev, engvars, thr>>

\* the operation returns to its caller
OpDone ==
    /\ op.pc = "sent"
    /\ op' = [op EXCEPT !.pc = "done", !.ret = OpReturn(op.kind, op.send)]
    /\ UNCHANGED <<desc, cmds, next_fence, lock, call, host, sends, fence_log,
                   pending, enc, scen, dev, engvars, thr>>

InitOps ==
    /\ InitIdleCT
    /\ scen = ScenIdle
    /\ dev = DevIdle
    /\ InitEngine

NextOps ==
    \/ \E kind \in OpKinds : OpCall(kind)
    \/ \E err \in WaitResults, status \in HostStatus : OpSend(err, status)
    \/ OpDone

SpecOps == InitOps /\ [][NextOps]_vars


\* ------------------------------------------------- vgpu_pv_vma_action
\* the actions sent through vgpu_pv_vma_action
VmaActions == {"PPGTT_L4_INSERT", "PPGTT_BIND", "PPGTT_UNBIND", "GGTT_INSERT",
               "GGTT_BIND", "GGTT_UNBIND"}

\* the dma address of page k of vma->pages (page aligned: the low bits are free
\* for the pte flags)
PageAddr(k) == 16 * k

\* virt_to_phys(gpas) of the scratch list
ListGpa == 16 * (MaxPages + 2)

\* addr | pte_flag
WithFlag(addr, pte_flag) == addr + pte_flag

\* a count that stays the nominal one
NominalSize(num_pages, i) == num_pages

\* if (num_pages != i) pvvma.size = i;
CorrectedSize(num_pages, i) == IF num_pages # i THEN i ELSE num_pages

\* the call up to the scratch list: num_pages comes from vma->node.size, the
\* sg table of vma->pages holds nsg pages (the node may be padded, never
\* shorter than the pages bound into it); kmalloc_array may fail
VmaCall(action, num_pages, nsg, pte_flag, alloc_ok) ==
    /\ op.pc \in {"idle", "done"}
    /\ op.calls < MaxOps
    /\ op' = [kind |-> "vma", action |-> action, num_pages |-> num_pages,
              nsg |-> nsg, pte_flag |-> pte_flag, size |-> num_pages,
              dma_addrs |-> IF num_pages = 1 THEN WithFlag(PageAddr(1), pte_flag)
                            ELSE IF alloc_ok THEN ListGpa ELSE 0,
              gpas |-> <<>>, allocs |-> IF num_pages > 1 /\ alloc_ok THEN 1 ELSE 0,
              frees |-> 0, sent |-> <<>>,
              ret |-> IF num_pages > 1 /\ ~alloc_ok THEN -ENOMEM ELSE 0,
              pc |-> IF num_pages = 1 THEN "out"
                     ELSE IF alloc_ok THEN "fill" ELSE "done",
              calls |-> op.calls + 1]
    /\ UNCHANGED <<desc, cmds, next_fence, lock, call, host, sends, fence_log,
                   pending, enc, scen, dev, engvars, thr>>

\* for_each_sgt_daddr: gpas[i++] = addr | pte_flag
VmaFill ==
    /\ op.pc = "fill"
    /\ Len(op.gpas) < op.nsg
    /\ op' = [op EXCEPT !.gpas = Append(@, WithFlag(PageAddr(Len(@) + 1), op.pte_flag))]
    /\ UNCHANGED <<desc, cmds, next_fence, lock, call, host, sends, fence_log,
                   pending, enc, scen, dev, engvars, thr>>

\* the sg table is exhausted: the count is corrected
VmaFilled ==
    /\ op.pc = "fill"
    /\ Len(op.gpas) = op.nsg
    /\ op' = [op EXCEPT !.size = CorrectedSize(op.num_pages, Len(op.gpas)),
                        !.pc = "out"]
    /\ UNCHANGED <<desc, cmds, next_fence, lock, call, host, sends, fence_log,
                   pending, enc, scen, dev, engvars, thr>>

\* out: data[0] = action; memcpy(&data[1], &pvvma, ...); intel_vgpu_pv_send
VmaSend(err, status) ==
    /\ op.pc = "out"
    /\ op' = [op EXCEPT !.sent = <<[action |-> op.action, size |-> op.size,
                                    dma_addrs |-> op.dma_addrs]>>,
                        !.ret = SendResult(err, status),
                        !.pc = "sent"]
    /\ UNCHANGED <<desc, cmds, next_fence, lock, call, host, sends, fence_log,
                   pending, enc, scen, dev, engvars, thr>>

\* if (num_pages > 1) kfree(gpas); return ret;
VmaReturn ==
    /\ op.pc = "sent"
    /\ op' = [op EXCEPT !.frees = IF op.num_pages > 1 THEN @ + 1 ELSE @,
                        !.pc = "done"]
    /\ UNCHANGED <<desc, cmds, next_fence, lock, call, host, sends, fence_log,
                   pending, enc, scen, dev, engvars, thr>>

NextVma ==
    \/ \E action \in VmaActions, num_pages \in 1..MaxPages, pte_flag \in {0, 1},
          alloc_ok \in BOOLEAN :
          \E nsg \in 1..num_pages : VmaCall(action, num_pages, nsg, pte_flag, alloc_ok)
    \/ VmaFill
    \/ VmaFilled
    \/ \E err \in WaitResults, status \in HostStatus : VmaSend(err, status)
    \/ VmaReturn

SpecVma == InitOps /\ [][NextVma]_vars

\* --------------------------------------------------------- intel_vgt_balloon
\* bl_info.space[]: 0 below and 1 above the guest's mappable range, 2 below
\* and 3 above its unmappable range
Spaces == 0..3

\* a drm_mm_node that is not in the address space
NodeFree == [allocated |-> FALSE, start |-> 0, size |-> 0]

\* the address space before intel_vgt_balloon: vgpu.active as the probe left
\* it, ggtt->vm.reserved as the GGTT setup left it, bl_info zeroed; with the
\* registers the call read, the regions its conditions asked for, and how
\* often each node was reserved and removed since the call
BalloonIdle(active, reserved) ==
    [kind |-> "balloon", pc |-> "idle", active |-> active, reserved |-> reserved,
     space |-> [i \in Spaces |-> NodeFree], before |-> reserved, ret |-> 0,
     mappable_base |-> 0, mappable_end |-> 0, unmappable_base |-> 0,
     unmappable_end |-> 0, asked |-> {},
     taken |-> [i \in Spaces |-> 0], released |-> [i \in Spaces |-> 0],
     errors |-> 0]

\* vgt_deballoon_space
vgt_deballoon_space(g, i) ==
    IF ~g.space[i].allocated THEN g
    ELSE [g EXCEPT !.reserved = @ - g.space[i].size,
                   !.space[i] = NodeFree,
                   !.released[i] = @ + 1]

\* vgt_balloon_space; ok: i915_gem_gtt_reserve finds the range free
vgt_balloon_space(g, i, start, end, ok) ==
    IF start >= end THEN [g EXCEPT !.ret = -EINVAL, !.asked = @ \cup {i}]
    ELSE IF ok
         THEN [g EXCEPT !.space[i] = [allocated |-> TRUE, start |-> start,
                                      size |-> end - start],
                        !.reserved = @ + (end - start),
                        !.taken[i] = @ + 1,
                        !.asked = @ \cup {i},
                        !.ret = 0]
    ELSE [g EXCEPT !.ret = -ENOSPC, !.asked = @ \cup {i}]

\* error labels that do not fall through
UnwindOwnLabel(label) ==
    CASE label = "err_below_mappable" -> <<0>>
      [] label = "err_upon_unmappable" -> <<3>>
      [] label = "err_upon_mappable" -> <<2>>
      [] label = "err" -> <<>>

\* the nodes the code from an error label on hands to vgt_deballoon_space
Unwind(label) ==
    CASE label = "err_below_mappable" -> <<0, 3, 2>>
      [] label = "err_upon_unmappable" -> <<3, 2>>
      [] label = "err_upon_mappable" -> <<2>>
      [] label = "err" -> <<>>

RECURSIVE DeballoonAll(_, _)
\* vgt_deballoon_space for each node of a list, in order
DeballoonAll(g, nodes) ==
    IF nodes = <<>> THEN g
    ELSE DeballoonAll(vgt_deballoon_space(g, Head(nodes)), Tail(nodes))

\* goto label ... return ret
BalloonFail(g, label) ==
    [DeballoonAll(g, Unwind(label)) EXCEPT !.errors = @ + 1, !.pc = "returned"]

\* intel_vgt_balloon: the four registers read, and the nodes whose
\* reservation would fail
intel_vgt_balloon(g, mappable_base, mappable_size, unmappable_base, unmappable_size, bad) ==
    LET mappable_end == mappable_base + mappable_size
        unmappable_end == unmappable_base + unmappable_size
        c == [g EXCEPT !.before = g.reserved, !.ret = 0, !.asked = {},
                       !.errors = 0,
                       !.taken = [i \in Spaces |-> 0],
                       !.released = [i \in Spaces |-> 0],
                       !.mappable_base = 0, !.mappable_end = 0,
                       !.unmappable_base = 0, !.unmappable_end = 0]
        g0 == [c EXCEPT !.mappable_base = mappable_base,
                        !.mappable_end = mappable_end,
                        !.unmappable_base = unmappable_base,
                        !.unmappable_end = unmappable_end]
        g2 == IF unmappable_base > GgttMappableEnd
              THEN vgt_balloon_space(g0, 2, GgttMappableEnd, unmappable_base,
                                     2 \notin bad)
              ELSE g0
        g3 == IF unmappable_end < GgttTotal
              THEN vgt_balloon_space(g2, 3, unmappable_end, GgttTotal, 3 \notin bad)
              ELSE g2
        g4 == IF mappable_base # 0
              THEN vgt_balloon_space(g3, 0, 0, mappable_base, 0 \notin bad)
              ELSE g3
        g5 == IF mappable_end < GgttMappableEnd
              THEN vgt_balloon_space(g4, 1, mappable_end, GgttMappableEnd,
                                     1 \notin bad)
              ELSE g4
    IN  IF ~g.active THEN [c EXCEPT !.pc = "returned"]
        ELSE IF \/ mappable_end > GgttMappableEnd
                \/ unmappable_base < GgttMappableEnd
                \/ unmappable_end > GgttTotal
             THEN [g0 EXCEPT !.ret = -EINVAL, !.errors = @ + 1, !.pc = "returned"]
        ELSE IF g2.ret # 0 THEN BalloonFail(g2, "err")
        ELSE IF g3.ret # 0 THEN BalloonFail(g3, "err_upon_mappable")
        ELSE IF g4.ret # 0 THEN BalloonFail(g4, "err_upon_unmappable")
        ELSE IF g5.ret # 0 THEN BalloonFail(g5, "err_below_mappable")
        ELSE [g5 EXCEPT !.pc = "returned"]

\* intel_vgt_deballoon
intel_vgt_deballoon(g) ==
    IF ~g.active THEN g ELSE DeballoonAll(g, <<0, 1, 2, 3>>)

\* intel_vgt_balloon, called once, at GGTT initialisation
Balloon(mappable_base, mappable_size, unmappable_base, unmappable_size, bad) ==
    /\ op.pc = "idle"
    /\ op' = intel_vgt_balloon(op, mappable_base, mappable_size, unmappable_base,
                               unmappable_size, bad)
    /\ UNCHANGED <<desc, cmds, next_fence, lock, call, host, sends, fence_log,
                   pending, enc, scen, dev, engvars, thr>>

\* intel_vgt_deballoon at driver unload or when the initialisation fails
\* after the ballooning; it may be called again
Deballoon ==
    /\ op.pc \in {"returned", "deballooned"}
    /\ op' = [intel_vgt_deballoon(op) EXCEPT !.pc = "deballooned"]
    /\ UNCHANGED <<desc, cmds, next_fence, lock, call, host, sends, fence_log,
                   pending, enc, scen, dev, engvars, thr>>

InitBalloon ==
    /\ InitIdleCT
    /\ scen = ScenIdle
    /\ dev = DevIdle
    /\ queue = <<>>
    /\ inflight = [p \in 0..EXECLIST_MAX_PORTS |-> 0]
    /\ slot = [descs |-> [n \in 0..(EXECLIST_MAX_PORTS - 1) |-> 0],
               ctx_gpa |-> [n \in 0..(EXECLIST_MAX_PORTS - 1) |-> 0],
               submitted |-> FALSE]
    /\ active_requests = <<>>
    /\ rq = [r \in Requests |-> RqIdle]
    /\ tasklet = [disabled |-> FALSE, sched |-> FALSE]
    /\ reset_call = NoResetCall
    /\ thr = ThrIdle
    /\ \E active \in BOOLEAN, reserved \in 0..1 : op = BalloonIdle(active, reserved)

NextBalloon ==
    \/ \E mappable_base, mappable_size, unmappable_base,
          unmappable_size \in 0..GgttTotal :
          \E bad \in SUBSET Spaces :
             Balloon(mappable_base, mappable_size, unmappable_base,
                     unmappable_size, bad)
    \/ Deballoon

SpecBalloon == InitBalloon /\ [][NextBalloon]_vars

\* ------------------------------------------------------------------ claims
\* ring occupancy in dwords, from the byte offsets of the descriptor
Occupancy == ((desc.tail + desc.size - desc.head) % desc.size) \div 4

\* caller c leaves pv_command_buffer_write in this step
WriteReturns(c) == call[c].pc = "write" /\ call'[c].pc # "write"

\* C1: pv_command_buffer_write returns -ENOSPC exactly when used + len + 1 >=
\* capacity, used being the ring occupancy in dwords; when it returns -ENOSPC
\* the descriptor's tail and the ring's data words are unchanged.
C1_NoSpaceExact ==
    [][\A c \in Callers :
         WriteReturns(c) =>
            /\ (call'[c].err = -ENOSPC) <=>
                  (Occupancy + Len(call[c].action) + 1 >= desc.size \div 4)
            /\ (call'[c].err = -ENOSPC) => (desc'.tail = desc.tail /\ cmds' = cmds)
            /\ (call'[c].err # -ENOSPC) => call'[c].err = 0]_vars

\* a write failed with -ENOSPC after earlier writes and a host head advance
C1_Witness ==
    \E c \in Callers :
        /\ call[c].pc = "unlock"
        /\ call[c].err = -ENOSPC
        /\ desc.head # 0
        /\ desc.tail < desc.head

\* C2: tail equals head only when the ring is empty: no dword written and not
\* yet consumed remains; a successful write leaves tail different from head
\* (one dword always stays free), and the occupancy the next write computes
\* is the number of unconsumed dwords, 0 once the host has caught up.
C2_EmptyOnlyWhenEqual ==
    /\ (desc.tail = desc.head) <=> (pending = 0)
    /\ Used(desc.head \div 4, desc.tail \div 4, desc.size \div 4) = pending
    /\ pending < desc.size \div 4

\* the host caught up with the producer after writes that wrapped the ring
C2_Witness ==
    /\ desc.head = desc.tail
    /\ desc.head # 0
    /\ Len(fence_log) >= 2
    /\ cmds[0] # Zero32
    /\ cmds[CTWords - 1] # Zero32

\* caller c is inside pv_send (pv->lock taken, not yet released)
InSend(c) == call[c].pc \in {"fence", "write", "wait", "status", "unlock"}

\* the status the host decided for the request it took last
HostStatusOf(c) == host.status

Succ32(a, b) ==
    \/ (b.hi = a.hi /\ b.lo = a.lo + 1)
    \/ (b.hi = a.hi + 1 /\ b.lo = 0 /\ a.lo = Half - 1)

\* C4: each send's fence is the previous send's fence plus one modulo 2^32:
\* greater than its predecessor except that 2^32 - 1 is followed by 0, and no
\* two sends of the window hold the same fence.
C4_FenceSuccessor ==
    /\ \A i \in 1..(Len(fence_log) - 1) :
          IF fence_log[i] = AllOnes THEN fence_log[i + 1] = Zero32
          ELSE Succ32(fence_log[i], fence_log[i + 1])
    /\ \A i, j \in 1..Len(fence_log) : i # j => fence_log[i] # fence_log[j]

\* C4 as stated: every send's fence is greater than every earlier send's
C4_AsClaimed ==
    \A i, j \in 1..Len(fence_log) : i < j => Less32(fence_log[i], fence_log[j])

\* three sends were given fences, the counter wrapping in between
C4_Witness ==
    /\ Len(fence_log) = 3
    /\ fence_log[1] = AllOnes
    /\ fence_log[2] = Zero32

RECURSIVE RingParse(_, _)
\* the messages between word index h and tail, k dwords being unconsumed:
\* whether they are whole, and their fence words in ring order
RingParse(h, k) ==
    LET size == desc.size \div 4
        n == cmds[h].lo % (PV_CT_MSG_LEN_MASK + 1)
        rest == RingParse((h + n + 1) % size, k - (n + 1))
    IN  IF k = 0 THEN [ok |-> h = desc.tail \div 4, fences |-> <<>>]
        ELSE IF n < 1 \/ n + 1 > k THEN [ok |-> FALSE, fences |-> <<>>]
        ELSE [ok |-> rest.ok /\ (cmds[h].lo \div PV_CT_MSG_WRITE_FENCE_TO_DESC) % 2 = 1,
              fences |-> <<cmds[(h + 1) % size]>> \o rest.fences]

RingMsgs == RingParse(desc.head \div 4, pending)

\* position of fence f in the allocation order
AllocPos(f) == CHOOSE i \in 1..Len(fence_log) : fence_log[i] = f

\* at most one caller is inside pv_send, and it holds the lock
OneSender ==
    /\ \A c, d \in Callers : (InSend(c) /\ InSend(d)) => c = d
    /\ \A c \in Callers : InSend(c) <=> lock = c

\* C5: at most one caller at a time is between lock and unlock; the unconsumed
\* part of the ring is a sequence of whole messages (header, fence, payload)
\* whose fences were allocated in the order the messages appear.
C5_Serialized ==
    /\ OneSender
    /\ RingMsgs.ok
    /\ \A i \in 1..Len(RingMsgs.fences) :
          \E p \in 1..Len(fence_log) : fence_log[p] = RingMsgs.fences[i]
    /\ \A i, j \in 1..Len(RingMsgs.fences) :
          i < j => AllocPos(RingMsgs.fences[i]) < AllocPos(RingMsgs.fences[j])

\* C5 as stated: the messages appear in the ring in increasing fence order
C5_AsClaimed ==
    /\ OneSender
    /\ RingMsgs.ok
    /\ \A i, j \in 1..Len(RingMsgs.fences) :
          i < j => Less32(RingMsgs.fences[i], RingMsgs.fences[j])

\* two whole messages are in the ring, their sender of the second waiting
\* while the other caller queues on the lock
C5_Witness ==
    \E c, d \in Callers :
        /\ call[c].pc = "wait"
        /\ call[d].pc = "spin"
        /\ Len(RingMsgs.fences) = 2
        /\ RingMsgs.fences[2] = call[c].fence
        /\ RingMsgs.fences[1] # call[c].fence

\* C6: pv_send returns 0 only if the write succeeded, the fence matched and
\* the status read is zero; it returns -EIO exactly for a matched fence with a
\* non-zero status, -ETIMEDOUT exactly for a written message whose fence did
\* not match in time, and -ENOSPC exactly for a failed write.
C6_SendResult ==
    \A c \in Callers :
        call[c].pc = "unlock" =>
            /\ (call[c].err = 0) <=>
                  (call[c].wrote /\ call[c].matched /\ call[c].status = Zero32)
            /\ (call[c].err = -EIO) <=>
                  (call[c].wrote /\ call[c].matched /\ call[c].status # Zero32)
            /\ (call[c].err = -ETIMEDOUT) <=> (call[c].wrote /\ ~call[c].matched)
            /\ (call[c].err = -ENOSPC) <=> ~call[c].wrote
            /\ call[c].err \in {0, -EIO, -ETIMEDOUT, -ENOSPC}

\* a send whose fence matched returns -EIO for the host's non-zero status
C6_Witness ==
    \E c \in Callers :
        /\ call[c].pc = "unlock"
        /\ call[c].matched
        /\ call[c].status = U(22)
        /\ call[c].err = -EIO

\* C7: every send call returns, also when the host never stores the fence,
\* and a caller that returned does not hold the lock, so a caller queued on
\* the lock gets it.
C7_SendTerminates ==
    /\ \A c \in Callers : (call[c].pc # "idle") ~> (call[c].pc = "idle")
    /\ [](\A c \in Callers : call[c].pc = "idle" => lock # c)

\* a send is about to return -ETIMEDOUT with the host not having taken its
\* message, while the other caller queues on the lock
C7_Witness ==
    \E c, d \in Callers :
        /\ call[c].pc = "unlock"
        /\ call[c].err = -ETIMEDOUT
        /\ pending > 0
        /\ host.fence # call[c].fence
        /\ call[d].pc = "spin"

\* C8: one send call performs at most one ring write, at most one host
\* notification and at most one fence wait; after a write that failed with
\* -ENOSPC it has notified nobody, waited for nothing, and is on its way out
\* with -ENOSPC as its result.
C8_NoRetry ==
    \A c \in Callers :
        /\ call[c].nwrite <= 1
        /\ call[c].nnotify <= 1
        /\ call[c].nwait <= 1
        /\ call[c].nnotify <= call[c].nwrite
        /\ (call[c].nwrite = 1 /\ ~call[c].wrote) =>
              /\ call[c].nnotify = 0
              /\ call[c].nwait = 0
              /\ call[c].pc = "unlock"
              /\ call[c].err = -ENOSPC

\* a send found the ring full: it wrote once, notified nobody and returns
C8_Witness ==
    \E c \in Callers :
        /\ call[c].pc = "unlock"
        /\ call[c].nwrite = 1
        /\ ~call[c].wrote
        /\ call[c].nnotify = 0
        /\ pending > 0

\* C9: a successful write of an action of len words stores the header at the
\* old tail, the fence at the next index and the payload words after it in
\* their order, every index taken modulo the capacity; it changes no other
\* word, leaves head alone and sets tail just past the last stored word.
C9_WriteLayout ==
    [][\A c \in Callers :
         (WriteReturns(c) /\ call'[c].err = 0) =>
            LET size == desc.size \div 4
                t == desc.tail \div 4
                a == call[c].action
                len == Len(a)
            IN  /\ cmds'[t] = W(a[1].lo, PV_CT_MSG_WRITE_FENCE_TO_DESC + len)
                /\ cmds'[(t + 1) % size] = call[c].fence
                /\ \A i \in 2..len : cmds'[(t + i) % size] = a[i]
                /\ \A k \in 0..(size - 1) :
                      (\A j \in 0..len : (t + j) % size # k) => cmds'[k] = cmds[k]
                /\ desc'.tail = ((t + len + 1) % size) * 4
                /\ desc'.head = desc.head]_vars

\* the message of the waiting sender straddles the end of the data region:
\* its header is in the upper part, its last payload word below the new tail
C9_Witness ==
    \E c \in Callers :
        LET size == desc.size \div 4
            t == desc.tail \div 4
            a == call[c].action
            n == Len(a) + 1
        IN  /\ call[c].pc = "wait"
            /\ Len(a) = MaxLen
            /\ t > 0 /\ t < n
            /\ cmds[(t + size - n) % size].lo = PV_CT_MSG_WRITE_FENCE_TO_DESC + Len(a)
            /\ cmds[t - 1] = a[Len(a)]

\* C10: the encoded header has len in bits [4:0], bit 8 set, the action code
\* in bits [31:16] and every other bit zero, for every len in 1..31 and every
\* action code of the enum.
C10_HeaderBits ==
    enc.done =>
        /\ enc.header.lo % 32 = enc.len
        /\ (enc.header.lo \div 32) % 8 = 0
        /\ (enc.header.lo \div 256) % 2 = 1
        /\ enc.header.lo \div 512 = 0
        /\ enc.header.hi = enc.code

\* the longest length with the last action code has been encoded
C10_Witness ==
    /\ enc.done
    /\ enc.len = PV_CT_MSG_LEN_MASK
    /\ enc.code = PV_ACTION_HWCTX_RESET

\* words the scenario's write advanced tail by
ScenAdvance ==
    LET size == scen.d.size \div 4
    IN  ((scen.d.tail - scen.d.head) \div 4 + size) % size

\* C11: on an empty ring of 64 words a 10-word action is written and tail
\* advances by 11 words: the header, which carries the action's first word,
\* the fence, and the 9 remaining words.
C11_ScenarioAdvance ==
    scen.done =>
        /\ scen.err = 0
        /\ ScenAdvance = Len(scen.action) + 1

\* C11 as stated: tail advances by the message words plus header and fence
C11_AsClaimed ==
    scen.done =>
        /\ scen.err = 0
        /\ ScenAdvance = Len(scen.action) + 2

\* the scenario's write was done on a ring whose tail stood at 0
C11_Witness ==
    /\ scen.done
    /\ scen.d.head = 0
    /\ scen.d.size = ScenWords * 4
    /\ Len(scen.action) = ScenLen
    /\ scen.buf[ScenLen] = scen.action[ScenLen]

\* bit b of the natural n
Bit(n, b) == (n \div Pow2(b)) % 2

\* the attach is over (intel_detect_vgpu returned)
Attached == dev.pc \in {"attached", "destroyed"}

\* intel_vgpu_check_pv_caps returned true
NegotiationSucceeded == Attached /\ dev.negotiated /\ dev.nsetup = 1 /\ dev.setup_ret = 0

\* C12: after a successful negotiation the guest's capability set has exactly
\* the bits that are both requested and offered, and the host's register
\* holds that same value.
C12_GrantIsIntersection ==
    NegotiationSucceeded =>
        /\ \A b \in 0..5 :
              (Bit(dev.pv_caps, b) = 1) <=>
                  (Bit(RequestedCaps, b) = 1 /\ Bit(dev.offered, b) = 1)
        /\ dev.reg_pv_caps = dev.pv_caps

\* the host offered PPGTT and a bit the guest does not ask for, and no GGTT:
\* PPGTT alone was granted
C12_Witness ==
    /\ NegotiationSucceeded
    /\ dev.offered = PV_PPGTT + 2 * PV_INTERRUPT
    /\ dev.pv_caps = PV_PPGTT
    /\ dev.reg_pv_caps = PV_PPGTT

\* C13: a capability's table is installed only if the vGPU is active, the
\* host advertises PV and the capability's bit is in the granted set; a call
\* for a capability that is not granted leaves its table uninstalled.
C13_TablesOnlyIfGranted ==
    \A c \in TableCaps :
        dev.tables[c] =>
            /\ dev.active
            /\ dev.caps_pv
            /\ (dev.pv_caps \div c) % 2 = 1
            /\ c \in dev.asked

\* config was called for PPGTT (granted) and GGTT (not granted)
C13_Witness ==
    /\ dev.pc = "attached"
    /\ {PV_PPGTT, PV_GGTT} \subseteq dev.asked
    /\ dev.pv_caps = PV_PPGTT
    /\ dev.tables[PV_PPGTT]
    /\ ~dev.tables[PV_GGTT]

\* C14: after a failed shared-page setup every page allocated was freed, no
\* channel state is published (vgpu.pv is NULL, no pv object allocated), the
\* granted set is 0 and 0 was written to the host, so no capability is enabled
\* and no table gets installed; device destroy frees nothing more.
C14_SetupFailureReleases ==
    (Attached /\ dev.nsetup = 1 /\ dev.setup_ret # 0) =>
        /\ dev.page \in {"none", "freed"}
        /\ dev.page_frees = dev.page_allocs
        /\ dev.pv = 0
        /\ dev.pv_allocs = 0 /\ dev.pv_frees = 0
        /\ ~dev.pvobj.enabled
        /\ dev.pv_caps = 0
        /\ dev.reg_pv_caps = 0
        /\ \A c \in TableCaps : ~dev.tables[c]

\* the host wrote a version the guest does not support; the page was freed
\* and the device has been destroyed since
C14_Witness ==
    /\ dev.pc = "destroyed"
    /\ dev.setup_ret = -EIO
    /\ dev.notified
    /\ dev.shpage.ver_major # PV_MAJOR
    /\ dev.page = "freed"
    /\ dev.granted # 0

\* C15: when both allocations succeed, the address read back matches and the
\* version fields agree, setup succeeds; then one page and one pv object are
\* allocated, held until device destroy and freed exactly once there; the CT
\* descriptor has head = tail = fence = 0, size = P/2 and the data region at
\* P/2, and every engine's slot has submitted = false.
C15_SetupSuccessHolds ==
    /\ (Attached /\ dev.nsetup = 1 /\ dev.page_allocs = 1
           /\ dev.reg_gpa = PageGpa /\ dev.shpage.ver_major = PV_MAJOR
           /\ dev.shpage.ver_minor = PV_MINOR /\ dev.setup_ret # -ENOMEM)
          => dev.setup_ret = 0
    /\ NegotiationSucceeded =>
          /\ dev.page_allocs = 1 /\ dev.pv_allocs = 1 /\ dev.pv = 1
          /\ dev.shpage.desc = [addr |-> PAGE_SIZE \div 2, size |-> PAGE_SIZE \div 2,
                                 head |-> 0, tail |-> 0, fence |-> 0, status |-> 0]
          /\ dev.pvobj.cmds = PAGE_SIZE \div 2
          /\ \A e \in Engines : ~dev.shpage.submitted[e]
          /\ dev.pc = "attached" =>
                (dev.page = "held" /\ dev.page_frees = 0 /\ dev.pv_frees = 0)
          /\ dev.pc = "destroyed" =>
                (dev.page = "freed" /\ dev.page_frees = 1 /\ dev.pv_frees = 1)

\* a device whose setup succeeded has been destroyed
C15_Witness ==
    /\ dev.pc = "destroyed"
    /\ NegotiationSucceeded
    /\ dev.page_frees = 1
    /\ dev.pv_frees = 1

\* some bit is both requested and offered
Intersects(requested, offered) ==
    \E b \in 0..5 : Bit(requested, b) = 1 /\ Bit(offered, b) = 1

\* C16: shared-page setup runs at most once in an attach and only after a
\* negotiation whose intersection is not empty; with an empty intersection no
\* page and no pv object is allocated, the granted set is 0 and no table gets
\* installed.
C16_SetupOnceAfterGrant ==
    /\ dev.nsetup <= 1
    /\ dev.nsetup = 1 => (dev.negotiated /\ Intersects(RequestedCaps, dev.offered))
    /\ (Attached /\ dev.negotiated /\ ~Intersects(RequestedCaps, dev.offered)) =>
          /\ dev.nsetup = 0
          /\ dev.page_allocs = 0 /\ dev.pv_allocs = 0 /\ dev.pv = 0
          /\ dev.pv_caps = 0
          /\ \A c \in TableCaps : ~dev.tables[c]

\* the host offered only a bit the guest does not ask for; config was called
\* for PPGTT afterwards
C16_Witness ==
    /\ dev.pc = "attached"
    /\ dev.negotiated
    /\ dev.offered = 2 * PV_INTERRUPT
    /\ dev.nsetup = 0
    /\ PV_PPGTT \in dev.asked

\* C17: the vGPU is active only if the magic read matched and the major
\* version read is not below the supported one; when the probe region was
\* read and the magic differs or the version is older, the device is
\* inactive, nothing was negotiated or set up, and no error was logged.
C17_ActiveOnlyIfDetected ==
    /\ dev.active => (dev.magic = VGT_MAGIC /\ dev.version >= VGT_VERSION_MAJOR)
    /\ (dev.pc # "probe" /\ dev.mapped
           /\ (dev.magic # VGT_MAGIC \/ dev.version < VGT_VERSION_MAJOR)) =>
          /\ ~dev.active
          /\ ~dev.negotiated
          /\ dev.nsetup = 0 /\ dev.page_allocs = 0
          /\ dev.errors = 0

\* the magic matched but the host's major version is older
C17_Witness ==
    /\ dev.pc = "attached"
    /\ dev.mapped
    /\ dev.magic = VGT_MAGIC
    /\ dev.version < VGT_VERSION_MAJOR
    /\ dev.infos = 1

\* the requests in the live ports, in port order: the entries before the
\* first NULL
LiveSeq(infl) == [i \in 1..LivePorts(infl, 0) |-> infl[i - 1]]

SeqRange(q) == {q[i] : i \in DOMAIN q}

\* b is what is left of a after reclaiming its leading completed requests
ReclaimedFrom(a, b, rqs) ==
    /\ Len(b) <= Len(a)
    /\ b = SubSeq(a, Len(a) - Len(b) + 1, Len(a))
    /\ \A i \in 1..(Len(a) - Len(b)) : rqs[a[i]].complete
    /\ b # <<>> => ~rqs[b[1]].complete

\* C18: while the slot is marked submitted no step writes its payload (descs,
\* ctx_gpa), and a tasklet run that finds submitted = true leaves the slot and
\* the pending queue as they were and changes the inflight ports only by
\* reclaiming the leading completed ones.
C18_SubmittedSlotUntouched ==
    [][slot.submitted =>
          /\ slot'.descs = slot.descs
          /\ slot'.ctx_gpa = slot.ctx_gpa
          /\ Tasklet => /\ slot' = slot
                        /\ queue' = queue
                        /\ active_requests' = active_requests
                        /\ ReclaimedFrom(LiveSeq(inflight), LiveSeq(inflight'), rq)]_vars

\* the tasklet has reclaimed both ports while the slot was still marked
\* submitted (a dispatch would have refilled port 0), with work pending
C18_Witness ==
    /\ slot.submitted
    /\ queue # <<>>
    /\ inflight[0] = 0
    /\ inflight[1] # 0
    /\ slot.descs[0] # 0

\* C19: a reset_cancel leaves the pending queue and the inflight ports empty,
\* and every request that was in the queue or in a live port is then complete
\* with error -EIO, failed exactly once by this cancel, and holds no port
\* reference; no reference count goes below zero.
C19_CancelFailsAllOnce ==
    [][ResetCancel =>
          /\ queue' = <<>>
          /\ \A p \in DOMAIN inflight : inflight'[p] = 0
          /\ \A r \in SeqRange(queue) \cup SeqRange(LiveSeq(inflight)) :
                /\ rq'[r].complete
                /\ rq'[r].err = -EIO
                /\ rq'[r].nfail = 1
                /\ rq'[r].refs = 0
          /\ \A r \in Requests : rq'[r].refs >= 0]_vars

\* after a cancel: a request that had been dispatched to a port (it is in the
\* slot and was failed through the executing list) and a request that was
\* still queued (failed without being skipped), each failed once
C19_Witness ==
    /\ tasklet.disabled
    /\ queue = <<>>
    /\ \A p \in DOMAIN inflight : inflight[p] = 0
    /\ \E r1 \in Requests, r2 \in Requests :
          /\ slot.descs[0] = r1
          /\ rq[r1].skipped /\ rq[r1].nfail = 1 /\ rq[r1].err = -EIO
          /\ ~rq[r2].skipped /\ rq[r2].nfail = 1 /\ rq[r2].err = -EIO
          /\ rq[r2].complete /\ rq[r2].st = "active"

\* C20: a request holds exactly one port reference for each live port it is
\* in (acquired when placed, released when it leaves by reclaim or cancel),
\* never a negative or a left-over one, and the array keeps its NULL end.
C20_OneReleasePerAcquire ==
    /\ inflight[EXECLIST_MAX_PORTS] = 0
    /\ \A r \in Requests :
          rq[r].refs = Cardinality({i \in DOMAIN LiveSeq(inflight) :
                                      LiveSeq(inflight)[i] = r})

\* compaction has left a released request behind a NULL, and a reset is
\* about to cancel the ports
C20_Witness ==
    /\ tasklet.disabled
    /\ inflight[0] = 0
    /\ inflight[1] # 0
    /\ rq[inflight[1]].complete
    /\ rq[inflight[1]].refs = 0

\* no port is filled in this step: a port that changes becomes NULL
PortsOnlyCleared ==
    \A p \in DOMAIN inflight : inflight'[p] # inflight[p] => inflight'[p] = 0

\* C22: from reset_prepare until reset_finish (tasklet disabled) no step
\* fills an inflight port, writes the slot's payload or marks it submitted,
\* and no request leaves the pending queue for a port, whatever is enqueued
\* or completed meanwhile.
C22_NoDispatchWhileDisabled ==
    [][tasklet.disabled =>
          /\ PortsOnlyCleared
          /\ slot'.descs = slot.descs
          /\ slot'.ctx_gpa = slot.ctx_gpa
          /\ slot'.submitted => slot.submitted
          /\ \A r \in Requests : rq'[r].refs <= rq[r].refs]_vars

\* dispatch is disabled, the tasklet is scheduled (an enqueue or a completion
\* happened) and work is pending with a free port and a free slot
C22_Witness ==
    /\ tasklet.disabled
    /\ tasklet.sched
    /\ queue # <<>>
    /\ inflight[0] = 0
    /\ ~slot.submitted
    /\ \E r \in Requests : rq[r].complete

C25_RewindReplays ==
    [][ResetRewind =>
          LET back == SelectSeq(active_requests, LAMBDA r : ~rq[r].complete)
          IN  /\ \A p \in DOMAIN inflight : inflight'[p] = 0
              /\ \A r \in Requests :
                    rq'[r].refs = IF r \in SeqRange(LiveSeq(inflight)) THEN rq[r].refs - 1
                                                                      ELSE rq[r].refs
              /\ \A r \in Requests : rq'[r].refs = 0
              /\ queue' = back \o queue
              /\ \A i \in DOMAIN back : rq'[back[i]].st = "queued"
              /\ back # <<>> =>
                    /\ reset_call'.rq = back[1]
                    /\ reset_call'.stalled = (reset_call'.passed /\ reset_call'.started)
              /\ back = <<>> => reset_call' = reset_call]_vars

\* a rewind was passed stalled for a request that had not started, and
\* replayed two requests in front of one that was still queued
C25_Witness ==
    /\ reset_call.rq # 0
    /\ reset_call.passed
    /\ ~reset_call.started
    /\ ~reset_call.stalled
    /\ Len(queue) = 3
    /\ queue[1] = reset_call.rq
    /\ \A p \in DOMAIN inflight : inflight[p] = 0
    /\ slot.descs[0] # 0

RECURSIVE GroupEnds(_)
\* the last request of each maximal run of requests of one context
GroupEnds(q) ==
    IF Len(q) <= 1 THEN q
    ELSE IF CtxOf(q[1]) = CtxOf(q[2]) THEN GroupEnds(Tail(q))
    ELSE <<q[1]>> \o GroupEnds(Tail(q))

RECURSIVE DropDone(_, _)
\* a sequence of requests without its leading completed ones
DropDone(q, rqs) ==
    IF q # <<>> /\ rqs[q[1]].complete THEN DropDone(Tail(q), rqs) ELSE q

\* C27: a dispatch takes a prefix of the pending queue in queue order, submits
\* it in that order, gives each maximal run of one context one port (after the
\* ports still in use) and one slot entry, and stops before the end of the
\* queue only at a context change with the last port in use; the rest of the
\* queue stays queued in its order.
C27_DispatchGroups ==
    [][(Tasklet /\ ~slot.submitted) =>
          LET kept == DropDone(LiveSeq(inflight), rq)
              n == Len(queue) - Len(queue')
              taken == SubSeq(queue, 1, n)
              ends == GroupEnds(taken)
          IN  /\ n >= 0
              /\ queue' = SubSeq(queue, n + 1, Len(queue))
              /\ active_requests' = active_requests \o taken
              /\ \A i \in DOMAIN taken : rq'[taken[i]].st = "active"
              /\ \A i \in DOMAIN queue' : rq'[queue'[i]] = rq[queue'[i]]
              /\ LiveSeq(inflight') = kept \o ends
              /\ Len(kept) + Len(ends) <= EXECLIST_MAX_PORTS
              /\ \A i \in DOMAIN ends :
                    /\ slot'.descs[i - 1] = ends[i]
                    /\ slot'.ctx_gpa[i - 1] = CtxOf(ends[i])
              /\ (queue' # <<>> /\ Len(kept) < EXECLIST_MAX_PORTS) =>
                    /\ n > 0
                    /\ CtxOf(queue'[1]) # CtxOf(taken[n])
                    /\ Len(kept) + Len(ends) = EXECLIST_MAX_PORTS
              /\ Len(kept) = EXECLIST_MAX_PORTS => n = 0]_vars

\* after a dispatch that filled both ports with requests of two contexts: a
\* request of yet another context than port 1's is left queued behind the
\* context change
C27_Witness ==
    /\ inflight[0] # 0
    /\ inflight[1] # 0
    /\ CtxOf(inflight[0]) # CtxOf(inflight[1])
    /\ slot.descs[0] = inflight[0]
    /\ slot.descs[1] = inflight[1]
    /\ queue # <<>>
    /\ rq[queue[1]].st = "queued"
    /\ CtxOf(queue[1]) # CtxOf(inflight[1])
    /\ \A r \in Requests : ~rq[r].complete
    /\ reset_call.rq = 0

\* C30: a tasklet run releases the leading completed requests of the live
\* ports, each once, and no other; what follows the first incomplete request
\* stays, in order, at the front of the array; requests dispatched in the
\* same run come after it, so a port reclaimed in a run can be refilled in
\* that run.
C30_ReclaimThenDispatch ==
    [][Tasklet =>
          LET live == LiveSeq(inflight)
              kept == DropDone(live, rq)
              gone == SubSeq(live, 1, Len(live) - Len(kept))
              new == SubSeq(LiveSeq(inflight'), Len(kept) + 1, Len(LiveSeq(inflight')))
          IN  /\ Len(LiveSeq(inflight')) >= Len(kept)
              /\ SubSeq(LiveSeq(inflight'), 1, Len(kept)) = kept
              /\ \A i \in DOMAIN gone : rq'[gone[i]].refs = rq[gone[i]].refs - 1
              /\ \A i \in DOMAIN kept : rq'[kept[i]].refs = rq[kept[i]].refs
              /\ \A i \in DOMAIN new : new[i] \in SeqRange(queue)
              /\ new # <<>> => ~slot.submitted]_vars

\* port 0 holds an incomplete request that was behind a reclaimed one, and
\* port 1 a completed request that stays because port 0 is not complete
C30_Witness ==
    /\ inflight[0] # 0
    /\ ~rq[inflight[0]].complete
    /\ inflight[1] # 0
    /\ rq[inflight[1]].complete
    /\ rq[inflight[1]].refs = 1
    /\ ~tasklet.sched
    /\ \E r \in Requests : rq[r].complete /\ rq[r].refs = 0 /\ r # inflight[1]

\* the run scheduled by reset_finish, taken from this state, leaves nothing
\* in the pending queue
KickedRunDispatchesAll ==
    /\ MayDequeue(slot.submitted)
    /\ TaskletDispatch.queue = <<>>

TimedOutDispatch == Tasklet /\ ~slot.submitted /\ slot'.submitted

\* every queued request leaves the queue (or dispatch gets disabled)
QueuedGetDispatched ==
    \A r \in Requests :
        (rq[r].st = "queued" /\ ~tasklet.disabled)
            ~> (rq[r].st # "queued" \/ tasklet.disabled)

\* C29 (as amended): a dispatch whose wait ran out fails no request and
\* leaves the tasklet enabled; while the slot stays marked submitted the
\* later runs reclaim the completed ports and dispatch nothing; and if the
\* host clears the flag again and again, every queued request is dispatched.
C29_TimeoutNotFatal ==
    /\ [][TimedOutDispatch =>
             /\ \A r \in Requests : /\ rq'[r].err = rq[r].err
                                    /\ rq'[r].complete = rq[r].complete
             /\ ~tasklet'.disabled]_vars
    /\ [][(Tasklet /\ slot.submitted) =>
             /\ LiveSeq(inflight') = DropDone(LiveSeq(inflight), rq)
             /\ queue' = queue]_vars
    /\ ([]<>(~slot.submitted)) => QueuedGetDispatched

\* C29 (as claimed): after a wait that ran out, the requests still queued are
\* dispatched on a later cycle, whatever the host does.
C29_AsClaimed == QueuedGetDispatched

\* after a wait that ran out (slot still submitted): a later run has
\* reclaimed both ports, and a request is still queued
C29_Witness ==
    /\ slot.submitted
    /\ ~tasklet.disabled
    /\ ~tasklet.sched
    /\ queue # <<>>
    /\ inflight[0] = 0
    /\ inflight[1] # 0
    /\ \A r \in Requests : rq[r].err = 0
    /\ reset_call.rq = 0

\* C26: every PV operation that returns a result (allocate-range, PPGTT
\* bind, GGTT bind, hardware-context update) returns 0 exactly when its send
\* returned 0, that is when the host confirmed the effect with a zero status,
\* and an error when the send failed (no space, timeout, non-zero status).
C26_AsClaimed == op.pc = "done" => (op.ret = 0 <=> op.send = 0)

\* the slot holds the entry of every port of the dispatch in progress, and
\* nothing behind them
PayloadComplete ==
    \A n \in DOMAIN slot.descs :
       IF thr.first + n < thr.end
       THEN /\ slot.descs[n] = inflight[thr.first + n]
            /\ slot.ctx_gpa[n] = CtxOf(inflight[thr.first + n])
       ELSE slot.descs[n] = 0

\* C28: in a dispatch the slot's payload (descriptor and context address of
\* every dispatched port) is complete when submitted is set and is not
\* touched by that step; the host is signalled only after submitted was set,
\* with the payload complete, and has no notification pending for a slot whose
\* flag is false; and the wait that follows the signal ends, the tasklet
\* returning whether or not the host cleared the flag.
C28_SubmitOrder ==
    /\ [][(slot'.submitted /\ ~slot.submitted)
              => (PayloadComplete /\ PayloadComplete')]_vars
    /\ [][StepSignal => (slot.submitted /\ PayloadComplete)]_vars
    /\ [](thr.sig => slot.submitted)
    /\ (thr.tpc = "signalled") ~> (thr.tpc = "idle")

\* the host has been signalled for a dispatch of two ports
C28_Witness ==
    /\ thr.tpc = "signalled"
    /\ thr.sig
    /\ slot.submitted
    /\ thr.end - thr.first = 2
    /\ PayloadComplete

\* a step of one of the four reset operations
ResetStep ==
    \/ StepPrepare
    \/ StepPrepareSync
    \/ StepRewind
    \/ StepCancel
    \/ StepFinish

\* C21: the tasklet (reclaim and dispatch) runs from its first to its last
\* statement holding the engine lock, and reset_rewind and reset_cancel hold
\* it while they work on the ports and the queue, so neither of these two
\* runs while the tasklet is between its lock and its unlock; reset_prepare
\* and reset_finish do not take the lock: they change nothing but the
\* tasklet's enable state and leave the inflight array, the pending queue, the
\* slot and the requests as they are.
C21_ResetSerialized ==
    /\ [](thr.tpc # "idle" => thr.lock = "tasklet")
    /\ [](thr.rpc \in {"rewind", "cancel", "unlock"} => thr.lock = "reset")
    /\ [][(StepRewind \/ StepCancel) => thr.tpc = "idle"]_vars
    /\ [][(StepPrepare \/ StepPrepareSync \/ StepFinish)
              => (/\ thr.lock # "reset"
                  /\ thr'.lock = thr.lock
                  /\ UNCHANGED <<queue, inflight, slot, active_requests, rq>>)]_vars

\* C21 as stated: every step of a reset operation (prepare, rewind, cancel,
\* finish) is taken with the engine lock held by the reset.
C21_AsClaimed == [][ResetStep => thr.lock = "reset"]_vars

\* reset_prepare has disabled the tasklet while a dispatch is half built: the
\* ports are filled, the slot is not written yet, the tasklet holds the lock
C21_Witness ==
    /\ thr.rpc = "prepare"
    /\ tasklet.disabled
    /\ thr.tpc \in {"memset", "fill"}
    /\ thr.lock = "tasklet"
    /\ inflight[0] # 0

RECURSIVE StoredSlots(_, _, _)
\* the indices of the n stores "cmds[tail] = ...; tail = (tail + 1) % size"
\* of pv_command_buffer_write, from the tail it starts at
StoredSlots(tail, size, n) ==
    IF n = 0 THEN {}
    ELSE {tail} \cup StoredSlots(NextSlot(tail, size), size, n - 1)

\* the layout intel_vgpu_setup_shared_page gives the page: the data region is
\* its upper half, the descriptor and the submission slots start below it
DataRegionInPage ==
    /\ PV_CMD_OFF + PAGE_SIZE \div 2 = PAGE_SIZE
    /\ PV_DESC_OFF + 6 * 4 <= PV_CMD_OFF
    /\ PV_ELSP_OFF + I915_NUM_ENGINES * (2 * 8 * EXECLIST_MAX_PORTS + 1) <= PV_DESC_OFF

\* C31: after any sequence of writes the descriptor's tail is a multiple of 4
\* bytes and less than the size in bytes, and each word a write stores goes to
\* a word index below the capacity, that is to a byte offset inside the data
\* region [addr, addr + size) of the shared page, which is the page's upper
\* half, above the descriptor and the submission slots.
C31_WritesInRegion ==
    /\ [](/\ desc.tail % 4 = 0
          /\ desc.tail < desc.size
          /\ DataRegionInPage)
    /\ [][\A c \in Callers :
            (WriteReturns(c) /\ call'[c].err = 0) =>
               \A i \in StoredSlots(desc.tail \div 4, desc.size \div 4,
                                    Len(call[c].action) + 1) :
                  /\ i \in 0..(desc.size \div 4 - 1)
                  /\ desc.addr + 4 * i >= desc.addr
                  /\ desc.addr + 4 * i + 4 <= desc.addr + desc.size]_vars

\* a write has stored a message across the end of the data region: the tail
\* wrapped and is below the head, with the writer's message still pending
C31_Witness ==
    /\ \E c \in Callers : call[c].wrote /\ call[c].pc = "wait"
    /\ desc.tail < desc.head
    /\ desc.tail # 0
    /\ pending > 0

\* vgpu_pv_vma_action has sent its message
VmaSent == op.kind = "vma" /\ op.pc \in {"sent", "done"} /\ op.sent # <<>>

TimedOut(c) == call[c].pc \in {"status", "unlock"} /\ call[c].wrote /\ ~call[c].matched

\* the fence of a message in the ring whose sender is no longer in its send
Orphan(f) == \A c \in Callers : ~(InSend(c) /\ call[c].fence = f)

Between(t, t2, size) == {k \in 0..(size - 1) : (k + size - t) % size < (t2 + size - t) % size}

\* C34: no step of a sender writes the descriptor's head, fence, status, size
\* or address; the only guest step that changes the descriptor or the data
\* region is a successful write, which changes the tail and no data word
\* outside those from the old tail up to the new one; a write that fails
\* and a send that times out leave the descriptor and the data as they are.
C34_GuestFrame ==
    [][(call' # call) =>
          /\ desc'.head = desc.head
          /\ desc'.fence = desc.fence
          /\ desc'.status = desc.status
          /\ desc'.size = desc.size
          /\ desc'.addr = desc.addr
          /\ (desc' # desc \/ cmds' # cmds) =>
                \E c \in Callers :
                   /\ WriteReturns(c)
                   /\ call'[c].err = 0
                   /\ \A k \in DOMAIN cmds :
                         cmds'[k] # cmds[k] =>
                            k \in Between(desc.tail \div 4, desc'.tail \div 4,
                                          desc.size \div 4)
          /\ \A c \in Callers :
                (TimedOut(c) \/ TimedOut(c)') => (desc' = desc /\ cmds' = cmds)]_vars

\* a send has timed out while the descriptor holds what the host wrote for
\* an earlier request: a moved head, that request's fence, a non-zero status
C34_Witness ==
    \E c \in Callers :
        /\ TimedOut(c)
        /\ call[c].err = -ETIMEDOUT
        /\ desc.head # 0
        /\ desc.status # Zero32
        /\ desc.fence # call[c].fence
        /\ desc.fence # Zero32

\* C35: the inflight array always holds a NULL inside the array, with at most
\* port_mask + 1 requests in front of it; a dispatch
\* passes pv_submit at least one and at most EXECLIST_MAX_PORTS ports, all
\* of them ports of the engine, so that every entry it writes is an entry of
\* the slot's descs and ctx_gpa arrays, and it puts the NULL behind the last
\* port it filled.
C35_PortsBounded ==
    /\ [](\E p \in 0..EXECLIST_MAX_PORTS :
             /\ p <= (EXECLIST_MAX_PORTS - 1) + 1
             /\ inflight[p] = 0
             /\ \A q \in 0..(p - 1) : inflight[q] # 0)
    /\ [][(Tasklet /\ ~slot.submitted /\ TaskletDispatch.submit) =>
             LET d == TaskletDispatch
             IN  /\ d.end - d.out \in 1..EXECLIST_MAX_PORTS
                 /\ d.out..(d.end - 1) \subseteq 0..(EXECLIST_MAX_PORTS - 1)
                 /\ \A n \in 0..(d.end - d.out - 1) :
                       /\ n \in DOMAIN slot.descs
                       /\ n \in DOMAIN slot.ctx_gpa
                       /\ slot'.descs[n] = inflight'[d.out + n]
                 /\ d.end \in DOMAIN inflight
                 /\ inflight'[d.end] = 0]_vars

\* both ports are in use, each with one reference and its entry in the
\* slot, the NULL is in the array's last place and a request is still queued
C35_Witness ==
    /\ inflight[0] # 0
    /\ inflight[1] # 0
    /\ inflight[EXECLIST_MAX_PORTS] = 0
    /\ slot.descs[0] = inflight[0]
    /\ slot.descs[1] = inflight[1]
    /\ Len(queue) >= 1
    /\ Len(active_requests) = 2
    /\ rq[inflight[0]].refs = 1
    /\ rq[inflight[1]].refs = 1
    /\ ~slot.submitted

\* C36: a dispatch that finds, after the reclaim, port 0 in use and port 1
\* free takes exactly one context group from the front of the queue, puts
\* its last request into port 1, leaves port 0 and its request's reference as
\* they are, and publishes that one entry at index 0 of the slot, index 1
\* zero; one that finds both ports in use changes neither the queue nor the
\* inflight array nor the slot.
C36_SecondPortOnly ==
    [][(Tasklet /\ ~slot.submitted) =>
          LET infl1 == TaskletReclaim.inflight
              k == Len(queue) - Len(queue')
          IN  /\ (infl1[0] # 0 /\ infl1[1] = 0 /\ queue # <<>>) =>
                    /\ inflight'[0] = infl1[0]
                    /\ rq'[infl1[0]].refs = TaskletReclaim.rq[infl1[0]].refs
                    /\ k >= 1
                    /\ queue' = SubSeq(queue, k + 1, Len(queue))
                    /\ \A i \in 1..k : CtxOf(queue[i]) = CtxOf(queue[1])
                    /\ queue' # <<>> => CtxOf(queue'[1]) # CtxOf(queue[1])
                    /\ inflight'[1] = queue[k]
                    /\ inflight'[EXECLIST_MAX_PORTS] = 0
                    /\ slot'.descs[0] = queue[k]
                    /\ slot'.ctx_gpa[0] = CtxOf(queue[k])
                    /\ slot'.descs[1] = 0
              /\ (infl1[0] # 0 /\ infl1[1] # 0) =>
                    /\ queue' = queue
                    /\ inflight' = infl1
                    /\ slot' = slot]_vars

\* port 1 was filled by a later dispatch than port 0, with a request of the
\* context port 0 runs, and a request of another context is still queued
C36_Witness ==
    /\ inflight[0] # 0
    /\ inflight[1] # 0
    /\ ~rq[inflight[0]].complete
    /\ CtxOf(inflight[0]) = CtxOf(inflight[1])
    /\ slot.descs[0] = inflight[1]
    /\ slot.descs[1] = 0
    /\ queue # <<>>
    /\ CtxOf(queue[1]) # CtxOf(inflight[1])

\* the CT channel is as it was: descriptor, data, fence counter, lock, and
\* the senders
ChannelUntouched ==
    UNCHANGED <<desc, cmds, next_fence, lock, call, sends, fence_log, pending>>

\* C37: a dispatch tells the host by the write of the submit register, with
\* the slot marked submitted, and by nothing else: no step of the tasklet
\* (reclaim, dequeue, the statements of pv_submit) and no step of a reset
\* operation changes the CT descriptor, the data region, the fence counter or
\* the channel lock, or starts a send.
C37_DispatchOffChannel ==
    /\ [][StepSignal => (slot.submitted /\ thr'.sig /\ ChannelUntouched)]_vars
    /\ [][(StepLock \/ TaskletBody) => ChannelUntouched]_vars
    /\ [][(ResetStep \/ StepResetUnlock \/ (\E kind \in {"rewind", "cancel"} :
                                              StepResetLock(kind)))
             => ChannelUntouched]_vars

\* the host has been told of a dispatch and a reset has rewound or cancelled
\* since: the channel is as setup left it, no fence allocated, the lock free
C37_Witness ==
    /\ thr.sig
    /\ slot.submitted
    /\ thr.rpc = "unlock"
    /\ desc.tail = 0
    /\ next_fence = Zero32
    /\ lock = 0
    /\ fence_log = <<>>

\* the five capability bits intel_vgpu_enabled_pv_caps is asked about
PvCaps == TableCaps \cup {PV_INTERRUPT}

\* a capability query answers true
SomeCapEnabled == \E cap \in PvCaps : intel_vgpu_enabled_pv_caps(dev, cap)

\* C38: once the probe has returned and until the device is released,
\* whenever intel_vgpu_enabled_pv_caps answers true for a capability, the
\* shared page is held and the channel-state object exists, is enabled, has
\* its command and descriptor pointers inside the page and its send and
\* notify callbacks installed; if shared-page setup failed or never ran, no
\* capability is reported enabled; and a PV operation table is installed
\* only after a setup that succeeded.
C38_EnabledImpliesChannel ==
    /\ (dev.pc = "attached" /\ SomeCapEnabled) =>
          /\ dev.page = "held"
          /\ dev.pv = 1
          /\ dev.pvobj.enabled
          /\ dev.pvobj.send /\ dev.pvobj.notify
          /\ dev.pvobj.cmds = PV_CMD_OFF /\ dev.pvobj.desc = PV_DESC_OFF
          /\ dev.nsetup = 1 /\ dev.setup_ret = 0
    /\ (dev.pc = "attached" /\ (dev.nsetup = 0 \/ dev.setup_ret # 0)) =>
          ~SomeCapEnabled
    /\ \A c \in TableCaps :
          dev.tables[c] =>
             (dev.nsetup = 1 /\ dev.setup_ret = 0 /\ dev.pv = 1 /\ dev.pvobj.send)

\* the host offered the submission capability, the channel-state allocation
\* failed, and the submission table was asked for afterwards and not
\* installed
C38_Witness ==
    /\ dev.pc = "attached"
    /\ dev.active /\ dev.caps_pv
    /\ dev.granted = PV_SUBMISSION
    /\ dev.setup_ret = -ENOMEM
    /\ dev.page = "freed"
    /\ PV_SUBMISSION \in dev.asked
    /\ ~dev.tables[PV_SUBMISSION]

\* the nodes a configuration needs reserved: what lies in the address space
\* outside the guest's two ranges
RequiredSpaces ==
    {i \in Spaces :
        \/ i = 0 /\ op.mappable_base > 0
        \/ i = 1 /\ op.mappable_end < GgttMappableEnd
        \/ i = 2 /\ op.unmappable_base > GgttMappableEnd
        \/ i = 3 /\ op.unmappable_end < GgttTotal}

\* the range node i covers when reserved
SpaceRange(i) ==
    CASE i = 0 -> [start |-> 0, size |-> op.mappable_base]
      [] i = 1 -> [start |-> op.mappable_end,
                   size |-> GgttMappableEnd - op.mappable_end]
      [] i = 2 -> [start |-> GgttMappableEnd,
                   size |-> op.unmappable_base - GgttMappableEnd]
      [] i = 3 -> [start |-> op.unmappable_end,
                   size |-> GgttTotal - op.unmappable_end]

RECURSIVE SumSizes(_)
\* total size of a set of nodes' ranges
SumSizes(S) ==
    IF S = {} THEN 0
    ELSE LET i == CHOOSE x \in S : TRUE IN SpaceRange(i).size + SumSizes(S \ {i})

\* the nodes in the address space
Allocated == {i \in Spaces : op.space[i].allocated}

\* C39: intel_vgt_balloon returns zero only with every required node
\* reserved over its range and the reserved total raised by their sizes;
\* when it returns non-zero every node it reserved has been removed again,
\* once, and the reserved total is what it was before the call; a later
\* intel_vgt_deballoon removes each reserved node exactly once and brings the
\* total back, and a repeated one removes nothing.
C39_BalloonAllOrNothing ==
    /\ (op.pc = "returned" /\ op.ret = 0 /\ op.active) =>
          /\ Allocated = RequiredSpaces
          /\ \A i \in Allocated :
                /\ op.space[i].start = SpaceRange(i).start
                /\ op.space[i].size = SpaceRange(i).size
                /\ op.taken[i] = 1 /\ op.released[i] = 0
          /\ op.reserved = op.before + SumSizes(RequiredSpaces)
    /\ (op.pc = "returned" /\ op.ret # 0) =>
          /\ Allocated = {}
          /\ \A i \in Spaces : op.released[i] = op.taken[i]
          /\ op.reserved = op.before
          /\ op.errors > 0
    /\ (op.pc = "returned" /\ ~op.active) =>
          (op.ret = 0 /\ Allocated = {} /\ op.reserved = op.before)
    /\ op.pc = "deballooned" =>
          /\ Allocated = {}
          /\ \A i \in Spaces : op.released[i] = op.taken[i]
          /\ op.reserved = op.before
    /\ \A i \in Spaces : op.released[i] <= op.taken[i] /\ op.taken[i] <= 1

\* the reservation above the mappable range failed after the three others
\* had been made: all three were removed again
C39_Witness ==
    /\ op.pc = "returned"
    /\ op.ret = -ENOSPC
    /\ op.asked = Spaces
    /\ \A i \in {0, 2, 3} : op.taken[i] = 1 /\ op.released[i] = 1
    /\ op.taken[1] = 0
    /\ op.reserved = op.before

====
